---- MODULE Spec2Model ----
(***************************************************************************)
(* Order resolution and payload mapping of the PSF -> Ongoing WMS          *)
(* integration (src/wms_service.py), its webhook handler (src/server.py),  *)
(* the winners script (src/create_winners_orders.py) and the WMS client of *)
(* src/main.py.                                                            *)
(*                                                                         *)
(* JSON / Python values are tagged records, so that values of different    *)
(* Python types can be told apart:                                         *)
(*   [t |-> "absent"]            a key that is not in its dict             *)
(*   [t |-> "none"]              None / JSON null                          *)
(*   [t |-> "str",   s |-> cs]   a str, cs its sequence of characters      *)
(*   [t |-> "int",   n |-> n]    an int                                    *)
(*   [t |-> "float", m |-> m]    a float, m its value in thousandths       *)
(*   [t |-> "dict",  d |-> r]    a dict, r a record over the known keys    *)
(*   [t |-> "list",  l |-> s]    a list                                    *)
(* Each type has its own field name, so that two values of different types *)
(* are records over different fields.                                      *)
(***************************************************************************)
EXTENDS Integers, Sequences, FiniteSets, TLC

VARIABLES
    PSF_CONFIGURED,   \* all([PSF_ACCESS_TOKEN, PSF_LOCATION_ID])
    pc,               \* where get_ghl_order_details stands
    retries,          \* its argument retries
    delay_seconds,    \* its argument delay_seconds
    attempt,          \* the loop variable of the retry loop
    order_id,         \* its local order_id
    calls,            \* the remote calls and sleeps it made, in order
    result,           \* what it returned
    ONGOING_GOODS_OWNER_ID_STR,  \* os.getenv("ONGOING_GOODS_OWNER_ID")
    ghl_order_data,   \* the argument of map_ghl_order_to_wms_payload
    mapped,           \* what map_ghl_order_to_wms_payload did with it
    mapped_before,    \* what it did with it the time before
    ONGOING_USERNAME, \* os.getenv("ONGOING_USERNAME")
    ONGOING_PASSWORD, \* os.getenv("ONGOING_PASSWORD")
    requests,         \* the webhook requests sent to the server, and where
                      \* handle_highlevel_order stands for each
    wms,              \* the orders the WMS holds
    WINNER_CONTACT_IDS,  \* the list create_winners_orders.py is configured with
    winners,          \* where its run() stands, and its locals
    wms_api,          \* an OngoingWMSIntegration object of main.py
    made              \* the last call of its _make_request and what it returned

resolverVars == <<PSF_CONFIGURED, pc, retries, delay_seconds, attempt, order_id, calls, result>>

mapperVars == <<ONGOING_GOODS_OWNER_ID_STR, ghl_order_data, mapped, mapped_before>>

serverVars == <<ONGOING_USERNAME, ONGOING_PASSWORD, requests, wms>>

scriptVars == <<WINNER_CONTACT_IDS, winners>>

clientVars == <<wms_api, made>>

vars == <<resolverVars, mapperVars, serverVars, scriptVars, clientVars>>

-----------------------------------------------------------------------------
(* Python values *)

Absent == [t |-> "absent"]

NoneV == [t |-> "none"]

Str(cs) == [t |-> "str", s |-> cs]

IntV(n) == [t |-> "int", n |-> n]

FloatV(m) == [t |-> "float", m |-> m]

Dict(r) == [t |-> "dict", d |-> r]

List(s) == [t |-> "list", l |-> s]

\* float("inf"): what json decodes a number beyond the float range to (1e999)
Inf == [t |-> "inf"]

\* bool(x) of a Python value, as `if x:` and `not x` see it
Truthy(x) ==
    CASE x.t = "absent" -> FALSE
      [] x.t = "none"   -> FALSE
      [] x.t = "str"    -> Len(x.s) > 0
      [] x.t = "int"    -> x.n # 0
      [] x.t = "float"  -> x.m # 0
      [] x.t = "inf"    -> TRUE
      [] x.t = "list"   -> Len(x.l) > 0
      [] x.t = "dict"   -> \E k \in DOMAIN x.d : x.d[k] # Absent

\* d.get(k): None when the key is missing
Get(d, k) == IF d.d[k] = Absent THEN NoneV ELSE d.d[k]

\* d.get(k, default): the default only when the key is missing
GetOr(d, k, default) == IF d.d[k] = Absent THEN default ELSE d.d[k]

-----------------------------------------------------------------------------
(* Python strings, as sequences of characters *)

LowercaseLetters ==
    <<"a", "b", "c", "d", "e", "f", "g", "h", "i", "j", "k", "l", "m",
      "n", "o", "p", "q", "r", "s", "t", "u", "v", "w", "x", "y", "z">>

UppercaseLetters ==
    <<"A", "B", "C", "D", "E", "F", "G", "H", "I", "J", "K", "L", "M",
      "N", "O", "P", "Q", "R", "S", "T", "U", "V", "W", "X", "Y", "Z">>

DigitChars == <<"0", "1", "2", "3", "4", "5", "6", "7", "8", "9">>

IndexIn(c, alphabet) == CHOOSE i \in DOMAIN alphabet : alphabet[i] = c

IsIn(c, alphabet) == \E i \in DOMAIN alphabet : alphabet[i] = c

UpperChar(c) ==
    IF IsIn(c, LowercaseLetters) THEN UppercaseLetters[IndexIn(c, LowercaseLetters)] ELSE c

LowerChar(c) ==
    IF IsIn(c, UppercaseLetters) THEN LowercaseLetters[IndexIn(c, UppercaseLetters)] ELSE c

RECURSIVE Upper(_)
\* str.upper()
Upper(cs) == IF cs = <<>> THEN <<>> ELSE <<UpperChar(Head(cs))>> \o Upper(Tail(cs))

RECURSIVE Lower(_)
\* str.lower()
Lower(cs) == IF cs = <<>> THEN <<>> ELSE <<LowerChar(Head(cs))>> \o Lower(Tail(cs))

\* str.isalpha(): non-empty and letters only
IsAlpha(cs) ==
    /\ cs # <<>>
    /\ \A i \in DOMAIN cs : IsIn(cs[i], LowercaseLetters) \/ IsIn(cs[i], UppercaseLetters)

IsDigits(cs) == cs # <<>> /\ \A i \in DOMAIN cs : IsIn(cs[i], DigitChars)

RECURSIVE LStrip(_)
LStrip(cs) == IF cs # <<>> /\ Head(cs) = " " THEN LStrip(Tail(cs)) ELSE cs

RECURSIVE RStrip(_)
RStrip(cs) ==
    IF cs # <<>> /\ cs[Len(cs)] = " " THEN RStrip(SubSeq(cs, 1, Len(cs) - 1)) ELSE cs

\* str.strip()
Strip(cs) == RStrip(LStrip(cs))

RECURSIVE DigitsValue(_)
\* The number a non-empty sequence of digits writes
DigitsValue(cs) ==
    IF cs = <<>>
    THEN 0
    ELSE DigitsValue(SubSeq(cs, 1, Len(cs) - 1)) * 10 + (IndexIn(cs[Len(cs)], DigitChars) - 1)

RECURSIVE NatChars(_)
NatChars(n) ==
    IF n < 10 THEN <<DigitChars[n + 1]>> ELSE NatChars(n \div 10) \o <<DigitChars[(n % 10) + 1]>>

\* str(n) of an int
IntChars(n) == IF n < 0 THEN <<"-">> \o NatChars(-n) ELSE NatChars(n)

\* f"{x}" of a str, None or int
Format(x) ==
    CASE x.t = "str"  -> x.s
      [] x.t = "none" -> <<"N", "o", "n", "e">>
      [] x.t = "int"  -> IntChars(x.n)

Failed == [ok |-> FALSE]

Parsed(n) == [ok |-> TRUE, v |-> n]

Unsigned(cs) == IF cs # <<>> /\ Head(cs) \in {"+", "-"} THEN Tail(cs) ELSE cs

Signed(cs, n) == IF cs # <<>> /\ Head(cs) = "-" THEN -n ELSE n

\* int(s) of a str: surrounding blanks, an optional sign, decimal digits
IntOfChars(cs) ==
    LET s == Strip(cs)
    IN  IF IsDigits(Unsigned(s)) THEN Parsed(Signed(s, DigitsValue(Unsigned(s)))) ELSE Failed

\* int(x) raises OverflowError, which is neither ValueError nor TypeError
IntOverflows(x) == x.t = "inf"

\* int(x): ValueError and TypeError are Failed. A float is truncated toward zero.
ParseInt(x) ==
    CASE x.t = "int"   -> Parsed(x.n)
      [] x.t = "float" -> Parsed(IF x.m < 0 THEN -((-x.m) \div 1000) ELSE x.m \div 1000)
      [] x.t = "str"   -> IntOfChars(x.s)
      [] OTHER         -> Failed

DotAt(cs) == IF IsIn(".", cs) THEN IndexIn(".", cs) ELSE Len(cs) + 1

\* A fraction of up to three digits, in thousandths
Thousandths(cs) ==
    IF Len(cs) = 0 THEN 0
    ELSE IF Len(cs) = 1 THEN DigitsValue(cs) * 100
    ELSE IF Len(cs) = 2 THEN DigitsValue(cs) * 10
    ELSE DigitsValue(SubSeq(cs, 1, 3))

\* float(s) of a str written in decimal notation with at most three decimals:
\* surrounding blanks, an optional sign, digits with an optional point
FloatOfChars(cs) ==
    LET s == Unsigned(Strip(cs))
        whole == SubSeq(s, 1, DotAt(s) - 1)
        frac == SubSeq(s, DotAt(s) + 1, Len(s))
    IN  IF /\ whole \o frac # <<>>
           /\ \A i \in DOMAIN whole : IsIn(whole[i], DigitChars)
           /\ \A i \in DOMAIN frac : IsIn(frac[i], DigitChars)
        THEN Parsed(Signed(Strip(cs), DigitsValue(whole) * 1000 + Thousandths(frac)))
        ELSE Failed

\* float(x), in thousandths: ValueError and TypeError are Failed
ParseFloat(x) ==
    CASE x.t = "int"   -> Parsed(x.n * 1000)
      [] x.t = "float" -> Parsed(x.m)
      [] x.t = "str"   -> FloatOfChars(x.s)
      [] OTHER         -> Failed

-----------------------------------------------------------------------------
(* Bounds and program constants *)

MaxRetries == 3

DefaultRetries == 3

DefaultDelaySeconds == 20

DelayChoices == {1, DefaultDelaySeconds}

OrderIds == {<<"O", "1">>, <<"O", "2">>}

\* The orders mapped differ from a well-formed order in at most MaxEdits fields
MaxEdits == 2

\* date.today(), as a day number
MaxDay == 2

-----------------------------------------------------------------------------
(* Well-formed orders of the CRM *)

Sku(n) == Str(<<"S", "K", "U", "-">> \o NatChars(n))

\* A well-formed item: {"name": .., "qty": 2, "price": {"sku": .., "amount": 10.0}}
BaseItem(n) ==
    Dict([name |-> Str(<<"B", "o", "o", "k">>),
          qty |-> IntV(2),
          price |-> Dict([sku |-> Sku(n), amount |-> FloatV(10000)])])

BaseContact ==
    Dict([firstName |-> Str(<<"J", "a", "n", "e">>),
          lastName |-> Str(<<"D", "o", "e">>),
          address1 |-> Str(<<"A", " ", "1">>),
          address2 |-> Absent,
          postalCode |-> Str(<<"1", "1", "1">>),
          city |-> Str(<<"L", "u", "n", "d">>),
          country |-> Str(<<"S", "E">>),
          email |-> Str(<<"j", "@", "x", ".", "s", "e">>),
          phone |-> Str(<<"0", "7">>)])

\* A well-formed order of n items
BaseOrder(id, n) ==
    Dict([_id |-> Str(id),
          contactSnapshot |-> BaseContact,
          items |-> List([i \in 1..n |-> BaseItem(i)]),
          notes |-> Absent,
          currency |-> Str(<<"S", "E", "K">>),
          amount |-> FloatV(20000)])

-----------------------------------------------------------------------------
(* Responses of the CRM *)

SearchStatuses == {401, 403, 404, 500}

FetchStatuses == {401, 404, 500}

Transaction(eid) == Dict([_id |-> Str(<<"T">>), entityId |-> eid])

\* What "data" of a transaction-search body can hold: nothing, a transaction
\* without entityId (missing, null or empty), a linked transaction, and two
\* transactions of which only the second is linked.
TransactionLists ==
    {<<>>}
    \cup {<<Transaction(e)>> : e \in {Absent, NoneV, Str(<<>>)}}
    \cup {<<Transaction(Str(o))>> : o \in OrderIds}
    \cup {<<Transaction(NoneV), Transaction(Str(o))>> : o \in OrderIds}

\* What requests.get + raise_for_status + response.json() + .get("data", [])
\* can do in one attempt
SearchResponses ==
    {[kind |-> "http_error", status |-> s] : s \in SearchStatuses}
    \cup {[kind |-> k] : k \in {"request_exception", "json_decode_error", "unexpected_error"}}
    \cup {[kind |-> "ok", transactions |-> ts] : ts \in TransactionLists}

\* What the body of an order-fetch answer decodes to: an order, or null
FetchBodies == {BaseOrder(o, 1) : o \in OrderIds} \cup {NoneV}

FetchResponses ==
    {[kind |-> "http_error", status |-> s, body |-> Str(<<"e", "r", "r">>)] : s \in FetchStatuses}
    \cup {[kind |-> k, body |-> Str(<<>>)] : k \in {"request_exception", "json_decode_error", "unexpected_error"}}
    \cup {[kind |-> "ok", body |-> b] : b \in FetchBodies}

-----------------------------------------------------------------------------
(* get_ghl_order_details *)

\* Mutants of IsAuthError: 403 forgotten; every HTTP error taken as fatal
IsAuthErrorOnly401(status) == status = 401

IsAuthErrorAnyStatus(status) == status >= 400

\* http_err.response.status_code in [401, 403]
IsAuthError(status) == status \in {401, 403}

\* Mutant of NotLastAttempt: the 1-based attempt number compared
NotLastAttemptOneBased(a, r) == a + 1 < r - 1

\* attempt < retries - 1
NotLastAttempt(a, r) == a < r - 1

\* Mutant of InRange: range(r + 1)
InRangeInclusive(a, r) == 0 <= a /\ a <= r

\* a in range(r)
InRange(a, r) == 0 <= a /\ a < r

\* transaction.get('entityId') of the top transaction
TopEntityId(transactions) == Get(transactions[1], "entityId")

\* Mutant of LinkFound: `if order_id is not None`
LinkFoundNotNone(oid) == oid # NoneV

\* if order_id: ... break
LinkFound(oid) == Truthy(oid)

\* Mutant of FetchResult: raise_for_status() and the except clauses left out
FetchResultUnchecked(resp) == resp.body

\* The value of the try block of step 2/2: the decoded body, or None from
\* every except clause
FetchResult(resp) == IF resp.kind = "ok" THEN resp.body ELSE NoneV

SearchCall(resp) == [op |-> "search", resp |-> resp]

SleepCall(secs) == [op |-> "sleep", secs |-> secs]

FetchCall(oid, resp) == [op |-> "fetch", id |-> oid, resp |-> resp]

Return(v) ==
    /\ pc' = "done"
    /\ result' = v

\* Lines 151-153, reached when the loop ends without a break or a return
AfterLoop(oid) ==
    IF ~Truthy(oid)
    THEN Return(NoneV)
    ELSE pc' = "fetch" /\ result' = result

\* Lines 70-97: the call, the configuration guard, entering the loop
Invoke ==
    /\ pc = "idle"
    /\ \E r \in 0..MaxRetries, d \in DelayChoices :
        /\ retries' = r
        /\ delay_seconds' = d
        /\ attempt' = 0
        /\ order_id' = NoneV
        /\ calls' = <<>>
        /\ IF ~PSF_CONFIGURED
           THEN Return(NoneV)
           ELSE IF InRange(0, r)
                THEN pc' = "search" /\ result' = result
                ELSE AfterLoop(NoneV)
    /\ UNCHANGED <<PSF_CONFIGURED, mapperVars, serverVars, scriptVars, clientVars>>

\* Lines 142-148, after an except clause that did not return
AfterError ==
    IF NotLastAttempt(attempt, retries)
    THEN pc' = "sleep_tail" /\ result' = result
    ELSE IF order_id = NoneV
         THEN Return(NoneV)
         ELSE AfterLoop(order_id)

\* Lines 98-148 up to the first sleep: one transaction-search attempt
Search ==
    /\ pc = "search"
    /\ \E resp \in SearchResponses :
        /\ calls' = Append(calls, SearchCall(resp))
        /\ IF resp.kind = "http_error"
           THEN /\ order_id' = order_id
                /\ IF IsAuthError(resp.status)
                   THEN Return(NoneV)
                   ELSE AfterError
           ELSE IF resp.kind # "ok"
           THEN /\ order_id' = order_id
                /\ AfterError
           ELSE /\ order_id' = IF Len(resp.transactions) > 0
                               THEN TopEntityId(resp.transactions)
                               ELSE order_id
                /\ IF Len(resp.transactions) > 0 /\ LinkFound(order_id')
                   THEN pc' = "fetch" /\ result' = result
                   ELSE IF NotLastAttempt(attempt, retries)
                        THEN pc' = "sleep_try" /\ result' = result
                        ELSE Return(NoneV)
    /\ UNCHANGED <<PSF_CONFIGURED, retries, delay_seconds, attempt, mapperVars, serverVars, scriptVars, clientVars>>

\* Line 120: time.sleep(delay_seconds) inside the try block; control then
\* leaves the try statement and reaches line 143
SleepInTry ==
    /\ pc = "sleep_try"
    /\ calls' = Append(calls, SleepCall(delay_seconds))
    /\ IF NotLastAttempt(attempt, retries)
       THEN pc' = "sleep_tail" /\ result' = result
       ELSE IF order_id = NoneV
            THEN Return(NoneV)
            ELSE AfterLoop(order_id)
    /\ UNCHANGED <<PSF_CONFIGURED, retries, delay_seconds, attempt, order_id, mapperVars, serverVars, scriptVars, clientVars>>

\* Line 145: time.sleep(delay_seconds) after the try statement, then the next
\* iteration of the for loop
SleepAfterTry ==
    /\ pc = "sleep_tail"
    /\ calls' = Append(calls, SleepCall(delay_seconds))
    /\ attempt' = attempt + 1
    /\ IF InRange(attempt + 1, retries)
       THEN pc' = "search" /\ result' = result
       ELSE AfterLoop(order_id)
    /\ UNCHANGED <<PSF_CONFIGURED, retries, delay_seconds, order_id, mapperVars, serverVars, scriptVars, clientVars>>

\* Lines 155-179: the single order fetch
Fetch ==
    /\ pc = "fetch"
    /\ \E resp \in FetchResponses :
        /\ calls' = Append(calls, FetchCall(order_id, resp))
        /\ Return(FetchResult(resp))
    /\ UNCHANGED <<PSF_CONFIGURED, retries, delay_seconds, attempt, order_id, mapperVars, serverVars, scriptVars, clientVars>>

\* map_ghl_order_to_wms_payload has not been called
NotMapped == [kind |-> "pending"]

\* The webhook requests sent to the server
Requests == {1, 2}

\* The server processes a request can reach; uvicorn.run starts one process
\* with one event loop
Workers == {1, 2}

\* HTTPException(status_code, detail), as the response it becomes; the detail
\* is its text and the contact id formatted into it
HTTPException(status_code, text, contact_id) ==
    [status |-> status_code, text |-> text, contactId |-> contact_id, wmsOrderNumber |-> NoneV]

\* No response yet
NoResponse == HTTPException(0, "", NoneV)

\* A request that has reached server process p, before the handler runs
PendingRequest(p) ==
    [proc |-> p,
     contactId |-> Str(<<"C", "1">>),
     pc |-> "pending",
     attempt |-> 0,
     order_id |-> NoneV,
     ghl_order_data |-> NoneV,
     wms_payload_model |-> NotMapped,
     puts |-> <<>>,
     success |-> FALSE,
     response |-> NoResponse,
     stages |-> <<>>]

\* No request sent; the WMS credentials set
ServerIdle ==
    /\ ONGOING_USERNAME = Str(<<"u">>)
    /\ ONGOING_PASSWORD = Str(<<"p">>)
    /\ requests = <<>>
    /\ wms = <<>>

\* run() of create_winners_orders.py not started
ScriptIdle ==
    /\ WINNER_CONTACT_IDS = <<>>
    /\ winners = [pc |-> "idle"]

\* No OngoingWMSIntegration object made
ClientIdle ==
    /\ wms_api = NoneV
    /\ made = NoneV

\* The resolver before a call
ResolverIdle ==
    /\ pc = "idle"
    /\ retries = DefaultRetries
    /\ delay_seconds = DefaultDelaySeconds
    /\ attempt = 0
    /\ order_id = NoneV
    /\ calls = <<>>
    /\ result = NoneV

\* The mapper before a call
MapperIdle ==
    /\ ghl_order_data = NoneV
    /\ mapped = NotMapped
    /\ mapped_before = NotMapped

Init ==
    /\ PSF_CONFIGURED \in BOOLEAN
    /\ ONGOING_GOODS_OWNER_ID_STR = Str(<<"1", "2">>)
    /\ ResolverIdle
    /\ MapperIdle
    /\ ServerIdle
    /\ ScriptIdle
    /\ ClientIdle

Next ==
    \/ Invoke
    \/ Search
    \/ SleepInTry
    \/ SleepAfterTry
    \/ Fetch

Spec == Init /\ [][Next]_vars

\* The function is sequential code: once called it takes its next step
\* whenever the remote call or the sleep it waits for returns
FairSpec == Init /\ [][Next]_vars /\ WF_vars(Search \/ SleepInTry \/ SleepAfterTry \/ Fetch)

-----------------------------------------------------------------------------
(* map_ghl_order_to_wms_payload *)

ContactKeys ==
    {"firstName", "lastName", "address1", "address2", "postalCode", "city",
     "country", "email", "phone"}

\* {} and []
EmptyContact == Dict([k \in ContactKeys |-> Absent])

EmptyPrice == Dict([sku |-> Absent, amount |-> Absent])

EmptyList == List(<<>>)

\* What the function does: returns a model, returns None, or lets an
\* exception escape
Returned(p) == [kind |-> "payload", payload |-> p]

ReturnedNone == [kind |-> "none"]

Raised == [kind |-> "raise"]

\* x.get(...) of a value that is not a dict raises AttributeError
HasGet(x) == x.t = "dict"

\* Mutant of CoerceQuantity: the clamp of line 205 left out
CoerceQuantityNoClamp(item) ==
    LET q == ParseInt(GetOr(item, "qty", IntV(1)))
    IN  IF q.ok THEN q.v ELSE 1

\* Lines 203-206: quantity = int(item.get("qty", 1)), 1 when that fails or
\* is not positive
CoerceQuantity(item) ==
    LET q == ParseInt(GetOr(item, "qty", IntV(1)))
    IN  IF q.ok THEN (IF q.v <= 0 THEN 1 ELSE q.v) ELSE 1

\* Lines 207-209: unit_price = float(price_details.get("amount", 0)), 0.0
\* when that fails; in thousandths
UnitPrice(price_details) ==
    LET a == ParseFloat(GetOr(price_details, "amount", IntV(0)))
    IN  IF a.ok THEN a.v ELSE 0

\* Mutant of Round2: the product left as it is
Round2Skipped(m) == m

\* round(x, 2) of x given in thousandths, in thousandths; an exact half goes
\* to the even hundredth (the halves of the orders mapped, multiples of 0.125,
\* are exact in binary floating point)
Round2(m) ==
    LET a == IF m < 0 THEN -m ELSE m
        low == (a \div 10) * 10
        r == a % 10
        up == IF r > 5 \/ (r = 5 /\ (a \div 10) % 2 = 1) THEN low + 10 ELSE low
    IN  IF m < 0 THEN -up ELSE up

\* Lines 211-216: the line built for an item that has an SKU
OrderLine(item, sku) ==
    [articleNumber |-> sku,
     numberOfItems |-> CoerceQuantity(item),
     articleName |-> GetOr(item, "name", Str(<<"N", "/", "A">>)),
     customerLinePrice |-> Round2(UnitPrice(GetOr(item, "price", EmptyPrice)) * CoerceQuantity(item))]

\* Mutant of ItemStep: an item without SKU not skipped
ItemStepNoSkip(item) ==
    IF ~HasGet(item) THEN "raise"
    ELSE IF ~HasGet(GetOr(item, "price", EmptyPrice)) THEN "raise"
    ELSE IF IntOverflows(GetOr(item, "qty", IntV(1))) THEN "raise"
    ELSE "line"

\* Lines 198-206: what the loop does with one item: "raise" when item or
\* its price is not a dict, "skip" when the SKU is missing or empty, "raise"
\* when int() of the quantity raises what line 206 does not catch
ItemStep(item) ==
    IF ~HasGet(item) THEN "raise"
    ELSE IF ~HasGet(GetOr(item, "price", EmptyPrice)) THEN "raise"
    ELSE IF ~Truthy(Get(GetOr(item, "price", EmptyPrice), "sku")) THEN "skip"
    ELSE IF IntOverflows(GetOr(item, "qty", IntV(1))) THEN "raise"
    ELSE "line"

RECURSIVE LineItems(_)
\* Lines 196-216: line_items_for_wms_data of a list of items, or Raised
LineItems(items) ==
    IF items = <<>>
    THEN [kind |-> "lines", lines |-> <<>>]
    ELSE LET item == Head(items)
             step == ItemStep(item)
             rest == LineItems(Tail(items))
         IN  IF step = "raise" THEN Raised
             ELSE IF rest.kind = "raise" THEN Raised
             ELSE IF step = "skip" THEN rest
             ELSE [kind |-> "lines",
                   lines |-> <<OrderLine(item, Get(GetOr(item, "price", EmptyPrice), "sku"))>> \o rest.lines]

\* Lines 222-226: int(ONGOING_GOODS_OWNER_ID_STR)
GoodsOwnerId(goods_owner_str) == ParseInt(goods_owner_str)

\* Lines 237: f"{first} {last}".strip()
ConsigneeName(cs) ==
    Str(Strip(Format(GetOr(cs, "firstName", Str(<<>>))) \o <<" ">>
              \o Format(GetOr(cs, "lastName", Str(<<>>)))))

\* Line 242
CountryCodeField(cs) == GetOr(cs, "country", Str(<<"N", "/", "A">>))

\* Lines 236-245: the consignee dict
ConsigneeData(cs) ==
    [name |-> ConsigneeName(cs),
     address |-> GetOr(cs, "address1", Str(<<"N", "/", "A">>)),
     address2 |-> Get(cs, "address2"),
     postCode |-> GetOr(cs, "postalCode", Str(<<"N", "/", "A">>)),
     city |-> GetOr(cs, "city", Str(<<"N", "/", "A">>)),
     countryCode |-> CountryCodeField(cs),
     email |-> Get(cs, "email"),
     mobilePhone |-> Get(cs, "phone")]

OrderFromPSF == <<"O", "r", "d", "e", "r", " ", "f", "r", "o", "m", " ", "P", "S", "F", ":", " ">>

\* Mutant of OrderNumber: the prefix left out
OrderNumberBare(id) == Str(Format(id))

\* Line 231
OrderNumber(id) == Str(<<"P", "S", "F", "-">> \o Format(id))

\* Line 233: notes or f"Order from PSF: {id}"
OrderRemark(order, id) ==
    IF Truthy(Get(order, "notes")) THEN Get(order, "notes") ELSE Str(OrderFromPSF \o Format(id))

\* Mutant of PayloadData: the day of processing made part of the order number
PayloadDataDatedNumber(order, cs, lines, goods_owner_id, today) ==
    [goodsOwnerId |-> goods_owner_id,
     orderNumber |-> Str(<<"P", "S", "F", "-">> \o Format(Get(order, "_id")) \o <<"-">> \o NatChars(today)),
     deliveryDate |-> today + 1,
     orderRemark |-> OrderRemark(order, Get(order, "_id")),
     customerPrice |-> Get(order, "amount"),
     currency |-> Str(Upper(GetOr(order, "currency", Str(<<"S", "E", "K">>)).s)),
     consignee |-> ConsigneeData(cs),
     orderLines |-> lines,
     wayOfDeliveryType |-> Str(<<"B", "2", "C", "-", "P", "a", "r", "c", "e", "l">>)]

\* Lines 229-248: payload_data. The caller has checked that currency is a
\* str and contact_snapshot a dict (anything else raises inside the try).
PayloadData(order, cs, lines, goods_owner_id, today) ==
    [goodsOwnerId |-> goods_owner_id,
     orderNumber |-> OrderNumber(Get(order, "_id")),
     deliveryDate |-> today + 1,
     orderRemark |-> OrderRemark(order, Get(order, "_id")),
     customerPrice |-> Get(order, "amount"),
     currency |-> Str(Upper(GetOr(order, "currency", Str(<<"S", "E", "K">>)).s)),
     consignee |-> ConsigneeData(cs),
     orderLines |-> lines,
     wayOfDeliveryType |-> Str(<<"B", "2", "C", "-", "P", "a", "r", "c", "e", "l">>)]

\* True when cs holds exactly one "@", a non-empty local part, and a domain
\* of non-empty labels separated by points, without blanks: what EmailStr
\* accepts among the addresses of EmailChoices
IsEmail(cs) ==
    /\ Cardinality({i \in DOMAIN cs : cs[i] = "@"}) = 1
    /\ \A i \in DOMAIN cs : cs[i] # " "
    /\ LET at == IndexIn("@", cs)
           domain == SubSeq(cs, at + 1, Len(cs))
       IN  /\ at > 1
           /\ Len(domain) >= 3
           /\ IsIn(".", domain)
           /\ domain[1] # "."
           /\ domain[Len(domain)] # "."

\* A field annotated str
ValidStr(x) == x.t = "str"

\* A field annotated Optional[str]
ValidOptionalStr(x) == x.t \in {"none", "str"}

\* Optional[float]: None, a number, or a str that float() accepts
ValidOptionalFloat(x) == x.t = "none" \/ ParseFloat(x).ok

\* Lines 27-35: OngoingWMSConsignee
ValidConsignee(c) ==
    /\ ValidStr(c.name)
    /\ ValidStr(c.address)
    /\ ValidOptionalStr(c.address2)
    /\ ValidStr(c.postCode)
    /\ ValidStr(c.city)
    /\ ValidStr(c.countryCode)
    /\ c.email.t = "none" \/ (c.email.t = "str" /\ IsEmail(c.email.s))
    /\ ValidOptionalStr(c.mobilePhone)

\* Lines 37-41: OngoingWMSOrderLine
ValidOrderLine(l) ==
    /\ ValidStr(l.articleNumber)
    /\ l.numberOfItems > 0
    /\ ValidStr(l.articleName)

\* Lines 43-52: OngoingWMSOrderPayload(**payload_data) raises no
\* ValidationError
ValidPayload(d) ==
    /\ ValidStr(d.orderNumber)
    /\ ValidOptionalStr(d.orderRemark)
    /\ ValidOptionalFloat(d.customerPrice)
    /\ d.currency.t = "none" \/ (d.currency.t = "str" /\ Len(d.currency.s) = 3)
    /\ ValidConsignee(d.consignee)
    /\ Len(d.orderLines) >= 1
    /\ \A i \in DOMAIN d.orderLines : ValidOrderLine(d.orderLines[i])

\* The validated model: customerPrice converted to float
PayloadModel(d) ==
    [d EXCEPT !.customerPrice =
        IF d.customerPrice.t = "none" THEN NoneV ELSE FloatV(ParseFloat(d.customerPrice).v)]

\* Mutant of BuildPayload: the dict returned without validation
BuildPayloadUnvalidated(order, cs, lines, goods_owner_id, today) ==
    IF GetOr(order, "currency", Str(<<"S", "E", "K">>)).t # "str" THEN ReturnedNone
    ELSE IF ~HasGet(cs) THEN ReturnedNone
    ELSE Returned(PayloadData(order, cs, lines, goods_owner_id, today))

\* Lines 228-254: the try block that builds and validates the payload; every
\* exception in it gives None
BuildPayload(order, cs, lines, goods_owner_id, today) ==
    IF GetOr(order, "currency", Str(<<"S", "E", "K">>)).t # "str" THEN ReturnedNone
    ELSE IF ~HasGet(cs) THEN ReturnedNone
    ELSE LET payload_data == PayloadData(order, cs, lines, goods_owner_id, today)
         IN  IF ~ValidPayload(payload_data) THEN ReturnedNone
             ELSE Returned(PayloadModel(payload_data))

\* Lines 192-226: from the items to the payload
MapItems(order, items, goods_owner_str, today) ==
    IF ~Truthy(items) THEN ReturnedNone
    ELSE IF items.t # "list" THEN Raised
    ELSE LET line_items == LineItems(items.l)
             goods_owner_id == GoodsOwnerId(goods_owner_str)
         IN  IF line_items.kind = "raise" THEN Raised
             ELSE IF line_items.lines = <<>> THEN ReturnedNone
             ELSE IF ~goods_owner_id.ok THEN ReturnedNone
             ELSE BuildPayload(order, GetOr(order, "contactSnapshot", EmptyContact),
                               line_items.lines, goods_owner_id.v, today)

\* Lines 181-254
MapGhlOrderToWmsPayload(order, goods_owner_str, today) ==
    IF ~Truthy(order) THEN ReturnedNone
    ELSE IF ~HasGet(order) THEN Raised
    ELSE IF ~Truthy(Get(order, "_id")) THEN ReturnedNone
    ELSE MapItems(order, GetOr(order, "items", EmptyList), goods_owner_str, today)

-----------------------------------------------------------------------------
(* get_country_code *)

\* country_map
CountryMap ==
    {<<Str(<<"s", "w", "e", "d", "e", "n">>), Str(<<"S", "E">>)>>,
     <<Str(<<"u", "n", "i", "t", "e", "d", " ", "s", "t", "a", "t", "e", "s">>), Str(<<"U", "S">>)>>}

\* country_map.get(name, "N/A")
CountryLookup(name) ==
    IF \E e \in CountryMap : e[1] = name
    THEN (CHOOSE e \in CountryMap : e[1] = name)[2]
    ELSE Str(<<"N", "/", "A">>)

\* Mutant of GetCountryCode: the table consulted for every name
GetCountryCodeTableOnly(country_name) ==
    IF ~Truthy(country_name) THEN Str(<<"N", "/", "A">>)
    ELSE CountryLookup(Str(Lower(country_name.s)))

\* get_country_code(country_name) of a str or None
GetCountryCode(country_name) ==
    IF ~Truthy(country_name) THEN Str(<<"N", "/", "A">>)
    ELSE IF Len(country_name.s) = 2 /\ IsAlpha(country_name.s) THEN Str(Upper(country_name.s))
    ELSE CountryLookup(Str(Lower(country_name.s)))

-----------------------------------------------------------------------------
(* The orders the mapper is applied to *)

ItemCounts == {1, 2}

Edit(on, idx, key, val) == [on |-> on, idx |-> idx, key |-> key, val |-> val]

Missing == {Absent, NoneV}

OrderEdits ==
    {Edit("order", 0, "_id", v) : v \in {Absent, Str(<<>>), Str(<<"O", "2">>), IntV(7)}}
    \cup {Edit("order", 0, "notes", v) : v \in {Str(<<"h", "i">>), IntV(1)}}
    \cup {Edit("order", 0, "currency", v) : v \in Missing \cup {Str(<<"s", "e", "k">>), Str(<<"e", "u">>)}}
    \cup {Edit("order", 0, "amount", v) : v \in Missing \cup {IntV(20), Str(<<"x">>)}}
    \cup {Edit("order", 0, "contactSnapshot", v) : v \in Missing}
    \cup {Edit("order", 0, "items", v) : v \in Missing \cup {EmptyList}}

CountryChoices ==
    {Str(<<>>), Str(<<"s", "e">>), Str(<<"S", "w", "e", "d", "e", "n">>), Str(<<"M", "a", "r", "s">>)}

ContactEdits ==
    {Edit("contact", 0, k, v) : k \in {"firstName", "postalCode", "city", "phone"}, v \in Missing}
    \cup {Edit("contact", 0, "lastName", Absent), Edit("contact", 0, "address2", Str(<<"B">>))}
    \cup {Edit("contact", 0, "address1", v) : v \in Missing \cup {IntV(5)}}
    \cup {Edit("contact", 0, "country", v) : v \in Missing \cup CountryChoices}
    \cup {Edit("contact", 0, "email", v) : v \in Missing \cup {Str(<<"b", "a", "d">>)}}

QtyChoices == {IntV(0), IntV(-1), Str(<<"4">>), Str(<<"x">>), FloatV(2500), Inf}

AmountChoices == {FloatV(3333), FloatV(1125), Str(<<"1", "0", ".", "5">>), Str(<<"x">>)}

SkuChoices == {Str(<<>>), IntV(9), Sku(2)}

\* Every field of the first item; of the second item, what decides whether it
\* is skipped, and a quantity that is not positive
ItemEdits ==
    {Edit("item", 1, k, v) : k \in {"price", "name"}, v \in Missing}
    \cup {Edit("item", 1, "qty", v) : v \in Missing \cup QtyChoices}
    \cup {Edit("price", 1, "sku", v) : v \in Missing \cup SkuChoices}
    \cup {Edit("price", 1, "amount", v) : v \in Missing \cup AmountChoices}
    \cup {Edit("item", 2, "price", v) : v \in Missing}
    \cup {Edit("price", 2, "sku", v) : v \in {Absent, Str(<<>>)}}
    \cup {Edit("item", 2, "qty", IntV(0))}

SetItem(o, i, item) ==
    Dict([o.d EXCEPT !.items = List([o.d.items.l EXCEPT ![i] = item])])

HasItem(o, i) ==
    /\ o.d.items.t = "list"
    /\ i \in DOMAIN o.d.items.l
    /\ o.d.items.l[i].t = "dict"

\* The order with one field replaced; an edit of a field whose parent is not
\* there leaves the order as it is
EditOrder(o, e) ==
    CASE e.on = "order" -> Dict([o.d EXCEPT ![e.key] = e.val])
      [] e.on = "contact" ->
            IF o.d.contactSnapshot.t = "dict"
            THEN Dict([o.d EXCEPT !.contactSnapshot = Dict([@.d EXCEPT ![e.key] = e.val])])
            ELSE o
      [] e.on = "item" ->
            IF HasItem(o, e.idx)
            THEN SetItem(o, e.idx, Dict([o.d.items.l[e.idx].d EXCEPT ![e.key] = e.val]))
            ELSE o
      [] e.on = "price" ->
            IF HasItem(o, e.idx) /\ o.d.items.l[e.idx].d.price.t = "dict"
            THEN SetItem(o, e.idx,
                         Dict([o.d.items.l[e.idx].d EXCEPT
                                  !.price = Dict([@.d EXCEPT ![e.key] = e.val])]))
            ELSE o

\* What os.getenv("ONGOING_GOODS_OWNER_ID") can be besides a number: unset,
\* or not a number
EnvEdits == {Edit("env", 0, "ONGOING_GOODS_OWNER_ID", v) : v \in {NoneV, Str(<<"a", "b">>)}}

Edits == OrderEdits \cup ContactEdits \cup ItemEdits \cup EnvEdits

\* An input of the mapper: the order and the environment it runs in
MapInput(order, goods_owner_str) == [order |-> order, goods_owner_str |-> goods_owner_str]

ApplyEdit(in, e) ==
    IF e.on = "env"
    THEN [in EXCEPT !.goods_owner_str = e.val]
    ELSE [in EXCEPT !.order = EditOrder(in.order, e)]

RECURSIVE Perturb(_, _)
\* The inputs within n edits of the inputs of S
Perturb(S, n) ==
    IF n = 0 THEN S ELSE Perturb(S \cup {ApplyEdit(in, e) : in \in S, e \in Edits}, n - 1)

\* Well-formed orders of one and of two items, with the goods owner id set
BaseInputs == {MapInput(BaseOrder(<<"O", "1">>, n), Str(<<"1", "2">>)) : n \in ItemCounts}

MapInputs == Perturb(BaseInputs, MaxEdits)

-----------------------------------------------------------------------------
(* The mapper applied to one order *)

MapInit ==
    /\ PSF_CONFIGURED = TRUE
    /\ ResolverIdle
    /\ \E in \in MapInputs :
          /\ ONGOING_GOODS_OWNER_ID_STR = in.goods_owner_str
          /\ ghl_order_data = in.order
    /\ mapped = NotMapped
    /\ mapped_before = NotMapped
    /\ ServerIdle
    /\ ScriptIdle
    /\ ClientIdle

\* The mapper called with the order, on some day; it is called a second time
\* with the same order and the same environment, on some day
MapOrder ==
    /\ mapped_before = NotMapped
    /\ \E today \in 1..MaxDay :
          mapped' = MapGhlOrderToWmsPayload(ghl_order_data, ONGOING_GOODS_OWNER_ID_STR, today)
    /\ mapped_before' = mapped
    /\ UNCHANGED <<resolverVars, ONGOING_GOODS_OWNER_ID_STR, ghl_order_data, serverVars, scriptVars, clientVars>>

MapNext == MapOrder

MapSpec == MapInit /\ [][MapNext]_vars

-----------------------------------------------------------------------------
(* create_ongoing_order and the WMS *)

\* Mutant of GetOngoingAuthHeader: the check of line 63 left out
GetOngoingAuthHeaderUnchecked(username, password) ==
    Str(<<"B", "a", "s", "i", "c", " ">> \o Format(username) \o <<":">> \o Format(password))

\* Lines 62-68: None when the username or the password is missing, else the
\* header value (the credentials stand for their base64 encoding)
GetOngoingAuthHeader(username, password) ==
    IF ~Truthy(username) \/ ~Truthy(password)
    THEN NoneV
    ELSE Str(<<"B", "a", "s", "i", "c", " ">> \o Format(username) \o <<":">> \o Format(password))

PutStatuses == {400, 401, 500}

\* What requests.put + raise_for_status can do: a 2xx answer, an error
\* status, or an exception of the transport, raised before the WMS took the
\* order or after it
PutResponses ==
    {[kind |-> "ok", status |-> 200, applied |-> TRUE]}
    \cup {[kind |-> "http_error", status |-> st, applied |-> FALSE] : st \in PutStatuses}
    \cup {[kind |-> "transport_error", status |-> 0, applied |-> a] : a \in BOOLEAN}

PutCall(payload, resp) == [payload |-> payload, resp |-> resp]

\* Lines 266-282: True after raise_for_status() passed, False from both
\* except clauses
CreateResult(resp) == resp.kind = "ok"

\* The position of the order with that number among the orders held, 0 when
\* there is none
HeldAt(held, order_number) ==
    IF \E i \in DOMAIN held : held[i].orderNumber = order_number
    THEN CHOOSE i \in DOMAIN held : held[i].orderNumber = order_number
    ELSE 0

\* PUT orders at the WMS ("created/updated", line 269): the order is created,
\* or replaces the order held under the same orderNumber
WmsPut(held, payload) ==
    IF HeldAt(held, payload.orderNumber) = 0
    THEN Append(held, payload)
    ELSE [held EXCEPT ![HeldAt(held, payload.orderNumber)] = payload]

-----------------------------------------------------------------------------
(* handle_highlevel_order, for each request; get_ghl_order_details is called *)
(* with its default retries and delay_seconds                               *)

FetchFailedText == "Failed to fetch order details from GHL for contact {payload.contactId}."

MapFailedText == "Failed to map order data for WMS processing."

CreateFailedText == "Order data was fetched, but failed to create order in WMS."

\* What the framework answers when the handler lets an exception escape
InternalServerError == HTTPException(500, "Internal Server Error", NoneV)

\* Mutant of SuccessResponse: the order id reported in place of the order number
SuccessResponseOfId(wms_payload_model) ==
    [status |-> 200,
     text |-> "Order processed and sent to WMS.",
     contactId |-> NoneV,
     wmsOrderNumber |-> Str(SubSeq(wms_payload_model.orderNumber.s, 5, Len(wms_payload_model.orderNumber.s)))]

\* Lines 59-62
SuccessResponse(wms_payload_model) ==
    [status |-> 200,
     text |-> "Order processed and sent to WMS.",
     contactId |-> NoneV,
     wmsOrderNumber |-> wms_payload_model.orderNumber]

\* The handler ends with that response
Respond(q, response) == [q EXCEPT !.pc = "done", !.response = response]

\* Mutant of ResolverFailed: the check of line 40 left out
ResolverFailedNever(v) == FALSE

\* Line 40: if not ghl_order_data
ResolverFailed(v) == ~Truthy(v)

\* Lines 39-45: get_ghl_order_details returned v to the handler
Resolved(q, v) ==
    IF ResolverFailed(v)
    THEN Respond([q EXCEPT !.ghl_order_data = v], HTTPException(502, FetchFailedText, q.contactId))
    ELSE [q EXCEPT !.ghl_order_data = v, !.pc = "map"]

\* Lines 151-153 of the resolver, for the request
RequestAfterLoop(q) ==
    IF ~Truthy(q.order_id) THEN Resolved(q, NoneV) ELSE [q EXCEPT !.pc = "fetch"]

\* Lines 142-148 of the resolver, for the request
RequestAfterError(q) ==
    IF NotLastAttempt(q.attempt, DefaultRetries)
    THEN [q EXCEPT !.pc = "sleep_tail"]
    ELSE IF q.order_id = NoneV
         THEN Resolved(q, NoneV)
         ELSE RequestAfterLoop(q)

\* Lines 98-148 of the resolver up to the first sleep, for the request
RequestAfterSearch(q, resp) ==
    IF resp.kind = "http_error"
    THEN IF IsAuthError(resp.status) THEN Resolved(q, NoneV) ELSE RequestAfterError(q)
    ELSE IF resp.kind # "ok"
    THEN RequestAfterError(q)
    ELSE LET oid == IF Len(resp.transactions) > 0
                    THEN TopEntityId(resp.transactions)
                    ELSE q.order_id
             q1 == [q EXCEPT !.order_id = oid]
         IN  IF Len(resp.transactions) > 0 /\ LinkFound(oid)
             THEN [q1 EXCEPT !.pc = "fetch"]
             ELSE IF NotLastAttempt(q.attempt, DefaultRetries)
                  THEN [q1 EXCEPT !.pc = "sleep_try"]
                  ELSE Resolved(q1, NoneV)

\* Lines 55-66: create_ongoing_order is called with the payload; without an
\* auth header it returns False before any remote call
StartCreate(q) ==
    LET q1 == [q EXCEPT !.stages = Append(@, "submission")]
    IN  IF ~Truthy(GetOngoingAuthHeader(ONGOING_USERNAME, ONGOING_PASSWORD))
        THEN Respond(q1, HTTPException(502, CreateFailedText, NoneV))
        ELSE [q1 EXCEPT !.pc = "put"]

\* Lines 48-55: the mapper is called with the order and gave m
Mapped(q, m) ==
    LET q1 == [q EXCEPT !.stages = Append(@, "mapper"), !.wms_payload_model = m]
    IN  IF m.kind = "raise" THEN Respond(q1, InternalServerError)
        ELSE IF m.kind = "none" THEN Respond(q1, HTTPException(500, MapFailedText, NoneV))
        ELSE StartCreate(q1)

\* Lines 57-66: create_ongoing_order returned
Created(q, success) ==
    IF success
    THEN Respond([q EXCEPT !.success = TRUE], SuccessResponse(q.wms_payload_model.payload))
    ELSE Respond(q, HTTPException(502, CreateFailedText, NoneV))

\* The handler is a coroutine without an await: from its first line to its
\* return it keeps the event loop of its process, through every requests call
\* and every time.sleep
Running(q) == q.pc \notin {"pending", "done"}

\* The event loop of the request's process is not kept by another request
CanRun(r) ==
    \A r2 \in Requests \ {r} :
        ~(requests[r2].proc = requests[r].proc /\ Running(requests[r2]))

\* The answers of the CRM the server is run against
ServerSearchResponses ==
    {[kind |-> "http_error", status |-> st] : st \in {401, 500}}
    \cup {[kind |-> "ok", transactions |-> ts] :
            ts \in {<<>>} \cup {<<Transaction(Str(o))>> : o \in OrderIds}}

\* The orders the CRM holds under an id: a well-formed one, one without
\* items, one whose item has a null price; or a null body
ServerFetchBodies(id) ==
    {BaseOrder(id, 1),
     EditOrder(BaseOrder(id, 1), Edit("order", 0, "items", EmptyList)),
     EditOrder(BaseOrder(id, 1), Edit("item", 1, "price", NoneV)),
     NoneV}

ServerFetchResponses(id) ==
    {[kind |-> "http_error", status |-> 500, body |-> Str(<<"e", "r", "r">>)]}
    \cup {[kind |-> "ok", body |-> b] : b \in ServerFetchBodies(id)}

\* Lines 33-39 and 70-97: the handler starts and calls the resolver
Receive(r) ==
    /\ requests[r].pc = "pending"
    /\ CanRun(r)
    /\ LET q == [requests[r] EXCEPT !.stages = Append(@, "resolver")]
       IN  requests' = [requests EXCEPT ![r] =
               IF ~PSF_CONFIGURED THEN Resolved(q, NoneV)
               ELSE IF InRange(0, DefaultRetries) THEN [q EXCEPT !.pc = "search"]
               ELSE RequestAfterLoop(q)]
    /\ UNCHANGED <<resolverVars, mapperVars, ONGOING_USERNAME, ONGOING_PASSWORD, wms, scriptVars, clientVars>>

\* One transaction search of the request
RequestSearch(r) ==
    /\ requests[r].pc = "search"
    /\ CanRun(r)
    /\ \E resp \in ServerSearchResponses :
          requests' = [requests EXCEPT ![r] = RequestAfterSearch(requests[r], resp)]
    /\ UNCHANGED <<resolverVars, mapperVars, ONGOING_USERNAME, ONGOING_PASSWORD, wms, scriptVars, clientVars>>

\* time.sleep of line 120, for the request
RequestSleepInTry(r) ==
    /\ requests[r].pc = "sleep_try"
    /\ CanRun(r)
    /\ requests' = [requests EXCEPT ![r] = RequestAfterError(requests[r])]
    /\ UNCHANGED <<resolverVars, mapperVars, ONGOING_USERNAME, ONGOING_PASSWORD, wms, scriptVars, clientVars>>

\* time.sleep of line 145, for the request, and the next iteration
RequestSleepAfterTry(r) ==
    /\ requests[r].pc = "sleep_tail"
    /\ CanRun(r)
    /\ LET q == [requests[r] EXCEPT !.attempt = @ + 1]
       IN  requests' = [requests EXCEPT ![r] =
               IF InRange(q.attempt, DefaultRetries)
               THEN [q EXCEPT !.pc = "search"]
               ELSE RequestAfterLoop(q)]
    /\ UNCHANGED <<resolverVars, mapperVars, ONGOING_USERNAME, ONGOING_PASSWORD, wms, scriptVars, clientVars>>

\* The order fetch of the request, and the handler's check of what came back
RequestFetch(r) ==
    /\ requests[r].pc = "fetch"
    /\ CanRun(r)
    /\ \E resp \in ServerFetchResponses(requests[r].order_id.s) :
          requests' = [requests EXCEPT ![r] = Resolved(requests[r], FetchResult(resp))]
    /\ UNCHANGED <<resolverVars, mapperVars, ONGOING_USERNAME, ONGOING_PASSWORD, wms, scriptVars, clientVars>>

\* Lines 48-55 and 259-264: the mapper, and create_ongoing_order up to its
\* remote call
RequestMap(r) ==
    /\ requests[r].pc = "map"
    /\ CanRun(r)
    /\ \E today \in 1..MaxDay :
          requests' = [requests EXCEPT ![r] =
              Mapped(requests[r],
                     MapGhlOrderToWmsPayload(requests[r].ghl_order_data,
                                             ONGOING_GOODS_OWNER_ID_STR, today))]
    /\ UNCHANGED <<resolverVars, mapperVars, ONGOING_USERNAME, ONGOING_PASSWORD, wms, scriptVars, clientVars>>

\* Lines 266-282 and 57-66: the PUT, what the WMS does with it, and the
\* handler's response
RequestPut(r) ==
    /\ requests[r].pc = "put"
    /\ CanRun(r)
    /\ \E resp \in PutResponses :
          LET q == requests[r]
              payload == q.wms_payload_model.payload
          IN  /\ requests' = [requests EXCEPT ![r] =
                     Created([q EXCEPT !.puts = Append(@, PutCall(payload, resp))],
                             CreateResult(resp))]
              /\ wms' = IF resp.applied THEN WmsPut(wms, payload) ELSE wms
    /\ UNCHANGED <<resolverVars, mapperVars, ONGOING_USERNAME, ONGOING_PASSWORD, scriptVars, clientVars>>

\* Two webhook requests, each sent to a server process; the credentials of the
\* CRM and of the WMS set or missing
ServerInit ==
    /\ PSF_CONFIGURED \in BOOLEAN
    /\ ResolverIdle
    /\ MapperIdle
    /\ ONGOING_GOODS_OWNER_ID_STR = Str(<<"1", "2">>)
    /\ ONGOING_USERNAME = Str(<<"u">>)
    /\ ONGOING_PASSWORD \in {Str(<<"p">>), NoneV}
    /\ requests \in {[r \in Requests |-> PendingRequest(f[r])] : f \in [Requests -> Workers]}
    /\ wms = <<>>
    /\ ScriptIdle
    /\ ClientIdle

\* The next step of the handler for request r
RequestStep(r) ==
    \/ Receive(r)
    \/ RequestSearch(r)
    \/ RequestSleepInTry(r)
    \/ RequestSleepAfterTry(r)
    \/ RequestFetch(r)
    \/ RequestMap(r)
    \/ RequestPut(r)

ServerNext == \E r \in Requests : RequestStep(r)

ServerSpec == ServerInit /\ [][ServerNext]_vars

-----------------------------------------------------------------------------
(* run() of create_winners_orders.py. It imports get_country_code from      *)
(* wms_service; the one definition of get_country_code the repository holds *)
(* is that of test_notifications.py, which is the one called here.          *)

\* The longest WINNER_CONTACT_IDS run() is started with
MaxWinners == 2

\* The placeholder run() refuses to start with
PlaceholderId == <<"C", "O", "N", "T", "A", "C", "T", "_", "I", "D", "_", "W", "I", "N", "N", "E", "R", "_", "1">>

\* Contact ids of the CRM; the first two begin with the same eight characters
WinnerIds ==
    {<<"h", "G", "Q", "S", "T", "i", "b", "U", "p", "u">>,
     <<"h", "G", "Q", "S", "T", "i", "b", "U", "x", "y">>,
     <<"e", "W", "G", "w", "3", "D", "S", "f", "H", "M">>}

WinnerLists ==
    UNION {[1..n -> WinnerIds \cup {PlaceholderId}] : n \in 0..MaxWinners}

CountryNames ==
    {<<"s", "w", "e", "d", "e", "n">>,
     <<"u", "n", "i", "t", "e", "d", " ", "s", "t", "a", "t", "e", "s">>,
     <<"u", "n", "i", "t", "e", "d", " ", "k", "i", "n", "g", "d", "o", "m">>,
     <<"n", "o", "r", "w", "a", "y">>,
     <<"d", "e", "n", "m", "a", "r", "k">>,
     <<"f", "i", "n", "l", "a", "n", "d">>,
     <<"g", "e", "r", "m", "a", "n", "y">>,
     <<"m", "a", "r", "s">>,
     <<"s", "e">>,
     <<"n", "o">>,
     <<"x">>}

\* The name with its first letter in upper case
Capitalized(cs) == <<UpperChar(Head(cs))>> \o Tail(cs)

\* What "country" of a contact can hold: nothing, null, the empty string, a
\* name or a code in lower case, capitalized or in upper case, text that is
\* neither, and a number
WinnerCountries ==
    {Absent, NoneV, Str(<<>>), Str(<<"s", "1">>), Str(<<" ", "s", "w", "e", "d", "e", "n">>), IntV(46)}
    \cup {Str(cs) : cs \in CountryNames}
    \cup {Str(Capitalized(cs)) : cs \in CountryNames}
    \cup {Str(Upper(cs)) : cs \in CountryNames}

\* response.json().get("contact") of a contact that has that country
WinnerContact(country) == Dict([BaseContact.d EXCEPT !.country = country])

\* Lines 46-54: what get_ghl_contact_details returns: None from the except
\* clause, or "contact" of the body (None when the body has none)
ContactResults == {NoneV} \cup {WinnerContact(c) : c \in WinnerCountries}

\* Lines 153-157: get_ongoing_auth_header of the script
GetOngoingAuthHeaderOfScript(username, password) ==
    IF ~Truthy(username) \/ ~Truthy(password)
    THEN NoneV
    ELSE Str(<<"B", "a", "s", "i", "c", " ">> \o Format(username) \o <<":">> \o Format(password))

\* contact_id[:8]
FirstEight(contact_id) ==
    SubSeq(contact_id, 1, IF Len(contact_id) < 8 THEN Len(contact_id) ELSE 8)

\* Line 82: f"WINNER-{contact_id[:8]}"
WinnerOrderNumber(contact_id) == Str(<<"W", "I", "N", "N", "E", "R", "-">> \o FirstEight(contact_id))

\* A datetime.date
DateV(day) == [t |-> "date", day |-> day]

PRIZE_SKU == Str(<<"P", "S", "F", "-", "B", "O", "O", "K", "-", "0", "0", "1">>)

PRIZE_QUANTITY == 1

\* get_country_code(x) raises: len() or .lower() of what is not a str
GetCountryCodeRaises(country_name) == Truthy(country_name) /\ country_name.t # "str"

\* Lines 80-115: order_payload_data
WinnerPayloadData(contact_id, contact, iso_country_code, goods_owner_id, today) ==
    [goodsOwnerId |-> goods_owner_id,
     orderNumber |-> WinnerOrderNumber(contact_id),
     deliveryDate |-> DateV(today + 1),
     orderRemark |-> Str(<<"W", "e", "b", "i", "n", "a", "r">>),
     customerPrice |-> FloatV(0),
     currency |-> Str(<<"S", "E", "K">>),
     consignee |->
        [customerNumber |-> Str(<<"G", "H", "L", "-">> \o contact_id),
         name |-> ConsigneeName(contact),
         address1 |-> Get(contact, "address1"),
         address2 |-> Get(contact, "address2"),
         postCode |-> Get(contact, "postalCode"),
         city |-> Get(contact, "city"),
         countryCode |-> iso_country_code,
         smsNotification |-> Get(contact, "phone"),
         emailNotification |-> Get(contact, "email")],
     orderLines |-> <<[rowNumber |-> 1,
                       articleNumber |-> PRIZE_SKU,
                       numberOfItems |-> PRIZE_QUANTITY,
                       customerLinePrice |-> FloatV(0)]>>,
     wayOfDeliveryType |-> Str(<<"B", "2", "C", "-", "P", "a", "r", "c", "e", "l">>)]

\* json.dumps(x) returns: a datetime.date is not JSON serializable
JsonSerializable(order_payload_data) == order_payload_data.deliveryDate.t # "date"

\* run() before its loop
RunStarted(goods_owner_id) ==
    [pc |-> "fetch",
     goods_owner_id |-> goods_owner_id,
     i |-> 1,
     contact |-> NoneV,
     iso_country_code |-> NoneV,
     order_payload_data |-> NoneV,
     built |-> <<>>,
     skipped |-> <<>>]

\* run() returned, or an exception left it
RunEnded(w, how) == [w EXCEPT !.pc = how]

\* `continue`, or the end of the loop body: the next contact id, if any
NextWinner(w) ==
    IF w.i + 1 > Len(WINNER_CONTACT_IDS)
    THEN RunEnded(w, "finished")
    ELSE [w EXCEPT !.pc = "fetch", !.i = w.i + 1]

Skip(w, why) ==
    NextWinner([w EXCEPT !.skipped = Append(@, [contact_id |-> WINNER_CONTACT_IDS[w.i], why |-> why])])

\* Lines 57-66: the guard on the list, int(os.getenv("ONGOING_GOODS_OWNER_ID"))
\* outside every try, and entering the loop
RunStart ==
    /\ winners.pc = "idle"
    /\ winners' =
          IF WINNER_CONTACT_IDS = <<>>
             \/ \E k \in DOMAIN WINNER_CONTACT_IDS : WINNER_CONTACT_IDS[k] = PlaceholderId
          THEN RunEnded(RunStarted(NoneV), "refused")
          ELSE IF ~ParseInt(ONGOING_GOODS_OWNER_ID_STR).ok
          THEN RunEnded(RunStarted(NoneV), "raised")
          ELSE RunStarted(ParseInt(ONGOING_GOODS_OWNER_ID_STR).v)
    /\ UNCHANGED <<resolverVars, mapperVars, serverVars, WINNER_CONTACT_IDS, clientVars>>

\* Lines 69-73: the contact of the winner is fetched
WinnerFetch ==
    /\ winners.pc = "fetch"
    /\ \E contact \in ContactResults :
          winners' =
              LET w == [winners EXCEPT !.contact = contact]
              IN  IF ~Truthy(contact) THEN Skip(w, "no contact") ELSE [w EXCEPT !.pc = "build"]
    /\ UNCHANGED <<resolverVars, mapperVars, serverVars, WINNER_CONTACT_IDS, clientVars>>

\* Lines 76-122: the payload is built; an exception skips the winner
WinnerBuild ==
    /\ winners.pc = "build"
    /\ \E today \in 1..MaxDay :
          winners' =
              LET contact_id == WINNER_CONTACT_IDS[winners.i]
                  country == Get(winners.contact, "country")
              IN  IF GetCountryCodeRaises(country)
                  THEN Skip(winners, "no payload")
                  ELSE [winners EXCEPT
                           !.pc = "send",
                           !.iso_country_code = GetCountryCode(country),
                           !.order_payload_data =
                               WinnerPayloadData(contact_id, winners.contact, GetCountryCode(country),
                                                 winners.goods_owner_id, today),
                           !.built = Append(@, [contact_id |-> contact_id,
                                                orderNumber |-> WinnerOrderNumber(contact_id)])]
    /\ UNCHANGED <<resolverVars, mapperVars, serverVars, WINNER_CONTACT_IDS, clientVars>>

\* Lines 124-136: without an auth header the winner is skipped; with one,
\* json.dumps(order_payload_data) of line 134 is outside every try and raises
\* TypeError for the date of line 83, so that the PUT of lines 138-147 is
\* not reached
WinnerSend ==
    /\ winners.pc = "send"
    /\ winners' =
          IF ~Truthy(GetOngoingAuthHeaderOfScript(ONGOING_USERNAME, ONGOING_PASSWORD))
          THEN Skip(winners, "no auth header")
          ELSE IF ~JsonSerializable(winners.order_payload_data)
          THEN RunEnded(winners, "raised")
          ELSE RunEnded(winners, "put")
    /\ UNCHANGED <<resolverVars, mapperVars, serverVars, WINNER_CONTACT_IDS, clientVars>>

\* run() started with a list of contact ids, the goods owner id and the WMS
\* password set or not
WinnersInit ==
    /\ PSF_CONFIGURED = TRUE
    /\ ResolverIdle
    /\ MapperIdle
    /\ ONGOING_GOODS_OWNER_ID_STR \in {Str(<<"1", "2">>), NoneV}
    /\ ONGOING_USERNAME = Str(<<"u">>)
    /\ ONGOING_PASSWORD \in {Str(<<"p">>), NoneV}
    /\ requests = <<>>
    /\ wms = <<>>
    /\ WINNER_CONTACT_IDS \in WinnerLists
    /\ winners = [pc |-> "idle"]
    /\ ClientIdle

WinnersNext ==
    \/ RunStart
    \/ WinnerFetch
    \/ WinnerBuild
    \/ WinnerSend

WinnersSpec == WinnersInit /\ [][WinnersNext]_vars

-----------------------------------------------------------------------------
(* OngoingWMSIntegration of main.py and its _make_request *)

\* Lines 85-89: the token (the credentials stand for their base64 encoding)
GetAuthToken(api_key, api_secret) == Format(api_key) \o <<":">> \o Format(api_secret)

BasicAuthorization(api_key, api_secret) ==
    Str(<<"B", "a", "s", "i", "c", " ">> \o GetAuthToken(api_key, api_secret))

\* Lines 68-83: __init__
Construct(api_key, api_secret) ==
    [api_key |-> api_key,
     api_secret |-> api_secret,
     Authorization |-> IF Truthy(api_key) /\ Truthy(api_secret)
                       THEN BasicAuthorization(api_key, api_secret)
                       ELSE NoneV]

\* Lines 106-107: the header is set when the key and the secret were added
\* after construction
WithAuthorization(api) ==
    IF api.Authorization = NoneV /\ Truthy(api.api_key) /\ Truthy(api.api_secret)
    THEN [api EXCEPT !.Authorization = BasicAuthorization(api.api_key, api.api_secret)]
    ELSE api

ApiCredentials == {NoneV, Str(<<"k">>)}

\* The objects _make_request is called on: constructed with or without
\* credentials, or given them after construction (line 336)
ApiObjects ==
    {Construct(k, s) : k \in ApiCredentials, s \in ApiCredentials}
    \cup {[Construct(NoneV, NoneV) EXCEPT !.api_key = Str(<<"k">>), !.api_secret = Str(<<"k">>)]}

\* The argument method: the four methods, in either case, another method,
\* and what is not a str
Methods ==
    {Str(<<"G", "E", "T">>), Str(<<"g", "e", "t">>), Str(<<"P", "U", "T">>),
     Str(<<"P", "O", "S", "T">>), Str(<<"D", "E", "L", "E", "T", "E">>),
     Str(<<"P", "A", "T", "C", "H">>), NoneV}

\* Lines 110-119
SupportedMethods ==
    {<<"G", "E", "T">>, <<"P", "U", "T">>, <<"P", "O", "S", "T">>, <<"D", "E", "L", "E", "T", "E">>}

ApiStatuses == {200, 201, 204, 400, 404, 500}

\* response.content: empty, or the text of a JSON value, or text that is not
\* JSON
EmptyContent == [empty |-> TRUE, decodes |-> FALSE, json |-> NoneV]

JsonContent(v) == [empty |-> FALSE, decodes |-> TRUE, json |-> v]

NotJsonContent == [empty |-> FALSE, decodes |-> FALSE, json |-> NoneV]

ApiContents ==
    {EmptyContent, NotJsonContent, JsonContent(NoneV), JsonContent(EmptyList),
     JsonContent(Dict([orderId |-> IntV(7)]))}

\* What requests.get/put/post/delete can do: raise, or return a response
ApiResponses ==
    {[kind |-> "exception", status |-> 0, content |-> EmptyContent]}
    \cup {[kind |-> "response", status |-> st, content |-> c] : st \in ApiStatuses, c \in ApiContents}

\* method.upper() names one of the four methods; .upper() of what is not a
\* str raises inside the try
MethodSupported(method) == method.t = "str" /\ Upper(method.s) \in SupportedMethods

\* Lines 109-129: what _make_request returns
MakeRequestResult(method, resp) ==
    IF ~MethodSupported(method) THEN NoneV
    ELSE IF resp.kind = "exception" THEN NoneV
    ELSE IF resp.status \in {200, 201}
         THEN IF resp.content.empty THEN NoneV
              ELSE IF ~resp.content.decodes THEN NoneV
              ELSE resp.content.json
    ELSE NoneV

\* Lines 91-129: one call of _make_request; no request is sent for a method
\* that is not supported
MakeRequest ==
    /\ \E method \in Methods, resp \in ApiResponses :
          made' = [method |-> method,
                   sent |-> MethodSupported(method),
                   resp |-> IF MethodSupported(method) THEN resp ELSE NoneV,
                   returned |-> MakeRequestResult(method, resp)]
    /\ wms_api' = WithAuthorization(wms_api)
    /\ UNCHANGED <<resolverVars, mapperVars, serverVars, scriptVars>>

ClientInit ==
    /\ PSF_CONFIGURED = TRUE
    /\ ONGOING_GOODS_OWNER_ID_STR = Str(<<"1", "2">>)
    /\ ResolverIdle
    /\ MapperIdle
    /\ ServerIdle
    /\ ScriptIdle
    /\ wms_api \in ApiObjects
    /\ made = NoneV

ClientNext == MakeRequest

ClientSpec == ClientInit /\ [][ClientNext]_vars

-----------------------------------------------------------------------------
(* Properties of get_ghl_order_details *)

SearchIdx == {i \in DOMAIN calls : calls[i].op = "search"}

SleepIdx == {i \in DOMAIN calls : calls[i].op = "sleep"}

FetchIdx == {i \in DOMAIN calls : calls[i].op = "fetch"}

\* The search succeeded at the HTTP level and returned zero transactions
EmptyResult(resp) == resp.kind = "ok" /\ Len(resp.transactions) = 0

\* The search returned a top transaction with a non-empty entityId
Linked(resp) ==
    /\ resp.kind = "ok"
    /\ Len(resp.transactions) > 0
    /\ resp.transactions[1].d.entityId.t = "str"
    /\ Len(resp.transactions[1].d.entityId.s) > 0

LinkedId(resp) == resp.transactions[1].d.entityId

AuthFailure(resp) == resp.kind = "http_error" /\ resp.status \in {401, 403}

\* Consecutive search attempts: no search in between
Consecutive(i, j) ==
    /\ i \in SearchIdx
    /\ j \in SearchIdx
    /\ i < j
    /\ \A k \in SearchIdx : ~(i < k /\ k < j)

RECURSIVE WaitedUpTo(_)
\* Seconds slept in the first n calls
WaitedUpTo(n) ==
    IF n = 0
    THEN 0
    ELSE WaitedUpTo(n - 1) + (IF calls[n].op = "sleep" THEN calls[n].secs ELSE 0)

TotalWaited == WaitedUpTo(Len(calls))

\* C1: when the credentials are configured and every transaction search
\* succeeds at the HTTP level but returns zero transactions, a call with
\* retries = r >= 1 never issues more than r searches, issues no order fetch,
\* and when it returns it has issued exactly r searches and returns failure.
C1_RetryBound ==
    (/\ PSF_CONFIGURED
     /\ pc # "idle"
     /\ retries >= 1
     /\ \A i \in SearchIdx : EmptyResult(calls[i].resp))
    => /\ Cardinality(SearchIdx) <= retries
       /\ FetchIdx = {}
       /\ pc # "fetch"
       /\ pc = "done" => (Cardinality(SearchIdx) = retries /\ result = NoneV)

\* C1 witness: a default call (3 retries) that saw three empty results and returned
C1_Witness ==
    /\ PSF_CONFIGURED
    /\ pc = "done"
    /\ retries = DefaultRetries
    /\ Cardinality(SearchIdx) = DefaultRetries
    /\ \A i \in SearchIdx : EmptyResult(calls[i].resp)

\* C2 (the claim as stated): between two consecutive search attempts there is
\* exactly one sleep, of delay_seconds, whatever made the earlier attempt
\* retryable; a call that made n >= 1 attempts has waited (n-1)*delay_seconds
\* when it returns, and nothing is slept after the last attempt.
C2_FixedDelay ==
    /\ \A i, j \in SearchIdx :
          Consecutive(i, j) =>
              /\ Cardinality({k \in SleepIdx : i < k /\ k < j}) = 1
              /\ \A k \in SleepIdx : (i < k /\ k < j) => calls[k].secs = delay_seconds
    /\ (pc = "done" /\ SearchIdx # {}) =>
          /\ TotalWaited = (Cardinality(SearchIdx) - 1) * delay_seconds
          /\ \A k \in SleepIdx : \E i \in SearchIdx : k < i

\* C3: a 401 or 403 answer to a transaction search ends the call at once:
\* it is the last thing the call did (no later search, sleep or fetch), the
\* call has returned, and it returned failure.
C3_AuthFailsImmediately ==
    \A i \in SearchIdx :
        AuthFailure(calls[i].resp) =>
            /\ i = Len(calls)
            /\ pc = "done"
            /\ result = NoneV

\* C3 witness: a 403 on a later attempt, after an earlier retryable one
C3_Witness ==
    \E i \in SearchIdx :
        /\ i > 1
        /\ calls[i].resp.kind = "http_error"
        /\ calls[i].resp.status = 403

\* C4: retryable attempts (transient failure, empty result, transaction
\* without entityId) do not end the call before the attempts are used up:
\* with the credentials configured, the call returns without a fetch only
\* after a 401/403 or after `retries` searches, and whenever it sleeps another
\* search attempt is left. The attempt that returns a top transaction with
\* an entityId ends the search: the next remote call is the order fetch for
\* that entityId.
C4_TransientAbsorbed ==
    /\ \A i \in SearchIdx :
          Linked(calls[i].resp) =>
              /\ \A j \in SearchIdx : j <= i
              /\ \A j \in SleepIdx : j < i
              /\ IF i = Len(calls)
                 THEN pc = "fetch" /\ order_id = LinkedId(calls[i].resp)
                 ELSE /\ Len(calls) = i + 1
                      /\ calls[i + 1].op = "fetch"
                      /\ calls[i + 1].id = LinkedId(calls[i].resp)
    /\ (/\ PSF_CONFIGURED
        /\ pc = "done"
        /\ FetchIdx = {}
        /\ \A i \in SearchIdx : ~AuthFailure(calls[i].resp))
       => Cardinality(SearchIdx) = retries
    /\ pc \in {"sleep_try", "sleep_tail"} =>
          /\ Cardinality(SearchIdx) = attempt + 1
          /\ attempt + 1 < retries
    /\ pc = "search" => Cardinality(SearchIdx) = attempt

\* C4 witness: a server error, then an unlinked transaction, then a linked
\* one on the third attempt, followed by the order fetch
C4_Witness ==
    /\ Cardinality(SearchIdx) = 3
    /\ \E i, j, k \in SearchIdx :
          /\ i < j /\ j < k
          /\ calls[i].resp.kind = "http_error"
          /\ calls[j].resp.kind = "ok"
          /\ ~Linked(calls[j].resp)
          /\ Linked(calls[k].resp)
          /\ calls[Len(calls)].op = "fetch"
          /\ calls[Len(calls)].id = LinkedId(calls[k].resp)

\* C5: a call issues at most one order fetch; the fetch is the last thing
\* it does, and if the fetch failed in any way the call returns failure.
C5_FetchNotRetried ==
    /\ Cardinality(FetchIdx) <= 1
    /\ \A i \in FetchIdx :
          /\ i = Len(calls)
          /\ pc = "done"
          /\ calls[i].resp.kind # "ok" => result = NoneV

\* C5 witness: an order fetch that failed with a server error
C5_Witness ==
    \E i \in FetchIdx :
        /\ calls[i].resp.kind = "http_error"
        /\ calls[i].resp.status = 500
        /\ pc = "done"

\* C6: an order fetch is issued only after a search attempt of the same call
\* returned a top transaction with a non-empty entityId; the id fetched is
\* the entityId of the last search, and no search follows the fetch.
C6_Sequencing ==
    \A j \in FetchIdx :
        /\ j > 1
        /\ calls[j - 1].op = "search"
        /\ Linked(calls[j - 1].resp)
        /\ calls[j].id = LinkedId(calls[j - 1].resp)
        /\ \A i \in SearchIdx : i < j

\* C6 witness: a fetch of O2 after a retried search
C6_Witness ==
    \E j \in FetchIdx :
        /\ calls[j].id = Str(<<"O", "2">>)
        /\ Cardinality(SearchIdx) = 2

\* A call never issued more than `retries` searches nor more than one order
\* fetch, and what it returned is an order record or failure (None)
ResolutionBounded ==
    /\ Cardinality(SearchIdx) <= retries
    /\ Cardinality(FetchIdx) <= 1
    /\ pc = "done" => (result = NoneV \/ result.t = "dict")

\* C27: for every retries >= 0 and every sequence of answers of the CRM
\* (success, empty, unlinked, 4xx, 5xx, network error, undecodable body) the
\* call terminates, having issued at most `retries` transaction searches and
\* at most one order fetch, and returns an order record or failure.
C27_BoundedResolution == []ResolutionBounded /\ ((pc # "idle") ~> (pc = "done"))

\* C27 witness: a default call that used all its attempts on a network
\* error, an undecodable body and a linked transaction, fetched the order
\* and returned
C27_Witness ==
    /\ pc = "done"
    /\ retries = DefaultRetries
    /\ Cardinality(SearchIdx) = retries
    /\ Cardinality(FetchIdx) = 1
    /\ \E i, j \in SearchIdx :
          /\ calls[i].resp.kind = "request_exception"
          /\ calls[j].resp.kind = "json_decode_error"
    /\ result.t = "dict"

-----------------------------------------------------------------------------
(* Properties of map_ghl_order_to_wms_payload *)

\* An item carries an article code: a price sub-object with a non-empty sku
HasArticleCode(item) ==
    /\ item.t = "dict"
    /\ item.d.price.t = "dict"
    /\ Truthy(item.d.price.d.sku)

ItemsOf(order) == IF order.d.items.t = "list" THEN order.d.items.l ELSE <<>>

\* The order without its items that carry no article code
WithoutUncoded(order) ==
    Dict([order.d EXCEPT !.items = List(SelectSeq(ItemsOf(order), HasArticleCode))])

\* The country field of the customer snapshot, None when there is none
SnapshotCountry(order) ==
    IF order.d.contactSnapshot.t = "dict" THEN Get(order.d.contactSnapshot, "country") ELSE NoneV

\* C7 (the claim as stated): every returned payload carries the normalized
\* country of the customer snapshot as consignee.countryCode; "Sweden"
\* gives "SE".
C7_CountryNormalized ==
    mapped.kind = "payload" =>
        mapped.payload.consignee.countryCode = GetCountryCode(SnapshotCountry(ghl_order_data))

\* C8 (the claim as stated): for an order with an identifier and at least one
\* item carrying an article code, the items without one (price absent, price
\* null, price without sku) are skipped: the mapper does what it does for the
\* order without those items, and never raises.
C8_MissingSkuSkipped ==
    (/\ mapped # NotMapped
     /\ Truthy(Get(ghl_order_data, "_id"))
     /\ \E i \in DOMAIN ItemsOf(ghl_order_data) : HasArticleCode(ItemsOf(ghl_order_data)[i]))
    => /\ mapped.kind # "raise"
       /\ \E today \in 1..MaxDay :
             mapped = MapGhlOrderToWmsPayload(WithoutUncoded(ghl_order_data),
                                              ONGOING_GOODS_OWNER_ID_STR, today)

\* C9 (the claim as stated): the mapper returns failure (None), and no
\* payload, for every order whose items list is empty and for every order
\* all of whose items lack an article code.
C9_Rejection ==
    (/\ mapped # NotMapped
     /\ ghl_order_data.d.items.t = "list"
     /\ \A i \in DOMAIN ItemsOf(ghl_order_data) : ~HasArticleCode(ItemsOf(ghl_order_data)[i]))
    => mapped.kind = "none"

\* The lines the loop of lines 196-216 builds for the order mapped
LinesBuilt ==
    LET built == LineItems(ItemsOf(ghl_order_data))
    IN  IF built.kind = "lines" THEN built.lines ELSE <<>>

\* C10: every returned payload has a non-empty orderLines and every line's
\* numberOfItems is an integer >= 1; the quantities the loop hands to the
\* schema are already integers >= 1.
C10_PayloadInvariant ==
    /\ mapped.kind = "payload" =>
          /\ Len(mapped.payload.orderLines) >= 1
          /\ \A i \in DOMAIN mapped.payload.orderLines :
                /\ mapped.payload.orderLines[i].numberOfItems \in Int
                /\ mapped.payload.orderLines[i].numberOfItems >= 1
    /\ LET lines == LinesBuilt
       IN  \A i \in DOMAIN lines :
               /\ lines[i].numberOfItems \in Int
               /\ lines[i].numberOfItems >= 1

\* C10 witness: a payload returned for an order with an item that was
\* skipped and an item whose quantity is not positive
C10_Witness ==
    /\ mapped.kind = "payload"
    /\ Len(mapped.payload.orderLines) = 1
    /\ Len(ItemsOf(ghl_order_data)) = 2
    /\ \E i \in DOMAIN ItemsOf(ghl_order_data) :
          /\ HasArticleCode(ItemsOf(ghl_order_data)[i])
          /\ ItemsOf(ghl_order_data)[i].d.qty.t = "int"
          /\ ItemsOf(ghl_order_data)[i].d.qty.n <= 0

\* The items that carry an article code, in order
CodedItems == SelectSeq(ItemsOf(ghl_order_data), HasArticleCode)

\* Every item is an object whose price, when it has one, is an object
ItemsWellShaped ==
    /\ ghl_order_data.d.items.t = "list"
    /\ \A i \in DOMAIN ItemsOf(ghl_order_data) :
          /\ ItemsOf(ghl_order_data)[i].t = "dict"
          /\ ItemsOf(ghl_order_data)[i].d.price.t \in {"dict", "absent"}

\* The quantity the contract gives a source qty: its integer value when it
\* has one that is positive (a number with a fraction counts by its integer
\* part), 1 otherwise
ContractQuantity(qty) ==
    IF qty.t \in {"absent", "none"} THEN 1
    ELSE IF ParseInt(qty).ok /\ ParseInt(qty).v > 0 THEN ParseInt(qty).v
    ELSE 1

\* C11 (the claim as stated): for an order with an identifier whose items are
\* objects, the mapping never fails with an exception whatever the
\* quantities are, there is one line per item carrying an article code, and
\* the line's numberOfItems is 1 when qty is absent, null, not parseable as
\* an integer or <= 0, and the parsed integer otherwise.
C11_QuantityCoercion ==
    (/\ mapped # NotMapped
     /\ Truthy(Get(ghl_order_data, "_id"))
     /\ ItemsWellShaped)
    => LET lines == LinesBuilt
           coded == CodedItems
       IN  /\ mapped.kind # "raise"
           /\ Len(lines) = Len(coded)
           /\ \A i \in DOMAIN lines :
                 lines[i].numberOfItems = ContractQuantity(coded[i].d.qty)
           /\ mapped.kind = "payload" =>
                 \A i \in DOMAIN lines :
                     mapped.payload.orderLines[i].numberOfItems = lines[i].numberOfItems

\* The unit amount the contract gives a source amount, in thousandths: its
\* decimal value, 0.0 when it has none
ContractAmount(amount) ==
    CASE amount.t = "int"   -> amount.n * 1000
      [] amount.t = "float" -> amount.m
      [] amount.t = "str"   -> IF FloatOfChars(amount.s).ok THEN FloatOfChars(amount.s).v ELSE 0
      [] OTHER              -> 0

\* r is x rounded to 2 decimal places (both in thousandths): a whole number
\* of hundredths, and none is nearer to x
RoundedTo2(r, x) ==
    /\ r % 10 = 0
    /\ r - x <= 5
    /\ x - r <= 5

\* C12: every line built for an item with coerced quantity q and unit amount
\* a (0.0 when the source amount is missing or unparseable) has
\* customerLinePrice equal to q*a rounded to 2 decimal places, and a returned
\* payload carries these prices; qty 2 at amount 10.0 gives 20.0.
C12_LineTotal ==
    LET lines == LinesBuilt
        coded == CodedItems
    IN  /\ lines # <<>> => Len(lines) = Len(coded)
        /\ \A i \in DOMAIN lines :
              /\ RoundedTo2(lines[i].customerLinePrice,
                            lines[i].numberOfItems * ContractAmount(coded[i].d.price.d.amount))
              /\ (coded[i].d.qty = IntV(2) /\ coded[i].d.price.d.amount = FloatV(10000))
                    => lines[i].customerLinePrice = 20000
        /\ mapped.kind = "payload" =>
              \A i \in DOMAIN lines :
                  mapped.payload.orderLines[i].customerLinePrice = lines[i].customerLinePrice

\* C12 witness: a payload returned with a line whose total had to be rounded
\* (2 x 3.333 = 6.666 gives 6.67) and a line of qty 2 at 10.0
C12_Witness ==
    /\ mapped.kind = "payload"
    /\ \E i \in DOMAIN mapped.payload.orderLines :
          /\ mapped.payload.orderLines[i].numberOfItems = 2
          /\ CodedItems[i].d.price.d.amount = FloatV(3333)
          /\ mapped.payload.orderLines[i].customerLinePrice = 6670
    /\ \E i \in DOMAIN mapped.payload.orderLines :
          mapped.payload.orderLines[i].customerLinePrice = 20000

\* The text of an order id: the id itself, or its decimal digits
IdText(id) == IF id.t = "int" THEN IntChars(id.n) ELSE id.s

\* The payload without its time-dependent field
Undated(payload) == [payload EXCEPT !.deliveryDate = 0]

\* C13: the order number of every returned payload is "PSF-" followed by the
\* source order id, whatever the other fields and the day are; mapping the
\* same order a second time under the same configuration gives the same
\* outcome, a payload equal in every field but deliveryDate, and an
\* identical payload when the processing date is the same.
C13_Deterministic ==
    /\ mapped.kind = "payload" =>
          mapped.payload.orderNumber
              = Str(<<"P", "S", "F", "-">> \o IdText(ghl_order_data.d._id))
    /\ mapped_before # NotMapped =>
          /\ mapped.kind = mapped_before.kind
          /\ mapped.kind = "payload" =>
                /\ mapped.payload.orderNumber = mapped_before.payload.orderNumber
                /\ Undated(mapped.payload) = Undated(mapped_before.payload)
                /\ mapped.payload.deliveryDate = mapped_before.payload.deliveryDate
                      => mapped = mapped_before

\* C13 witness: an order whose other fields were edited, mapped twice on
\* the same day into the same payload
C13_Witness ==
    /\ mapped_before.kind = "payload"
    /\ mapped = mapped_before
    /\ ghl_order_data # BaseOrder(<<"O", "1">>, 1)
    /\ ghl_order_data # BaseOrder(<<"O", "1">>, 2)

\* C13 second witness: the same order mapped on two different days
C13_WitnessOtherDay ==
    /\ mapped_before.kind = "payload"
    /\ mapped.kind = "payload"
    /\ mapped.payload.deliveryDate # mapped_before.payload.deliveryDate

-----------------------------------------------------------------------------
(* The failures of get_ghl_order_details, as its caller sees them *)

\* Which failure a returned call ran into: a 401/403 from the transaction
\* search, a failed order fetch, or the attempts used up; "none" otherwise
ResolutionFailure ==
    IF \E i \in SearchIdx : AuthFailure(calls[i].resp) THEN "Unauthorized"
    ELSE IF \E i \in FetchIdx : calls[i].resp.kind # "ok" THEN "OrderFetchFailed"
    ELSE IF FetchIdx = {} /\ retries >= 1 /\ Cardinality(SearchIdx) = retries THEN "NoOrderFound"
    ELSE "none"

\* C19 (the claim as stated): a call that failed returns to its caller a
\* typed failure that names which of NoOrderFound, Unauthorized and
\* OrderFetchFailed occurred.
C19_TypedFailures ==
    (pc = "done" /\ ResolutionFailure # "none")
    => /\ result.t = "error"
       /\ result.error = ResolutionFailure

-----------------------------------------------------------------------------
(* Properties of handle_highlevel_order and create_ongoing_order *)

Done(r) == requests[r].pc = "done"

HasStage(q, stage) == \E i \in DOMAIN q.stages : q.stages[i] = stage

\* A PUT of the request reached the WMS and was taken
Applied(q) == \E i \in DOMAIN q.puts : q.puts[i].resp.applied

\* The order number the order the request resolved to is to be held under
KeyOf(q) == Str(<<"P", "S", "F", "-">> \o IdText(q.ghl_order_data.d._id))

HeldUnder(order_number) == {i \in DOMAIN wms : wms[i].orderNumber = order_number}

\* C14: whatever the interleaving of the requests, the WMS never holds two
\* orders under one order number; once a submission of a request was taken,
\* the WMS holds exactly one order for the CRM order it resolved to, under
\* "PSF-<id>"; two requests that resolved to the same CRM order and were both
\* taken leave one record, the payload of one of them.
C14_IdempotentByKey ==
    /\ \A i, j \in DOMAIN wms : i # j => wms[i].orderNumber # wms[j].orderNumber
    /\ \A r \in Requests :
          Applied(requests[r]) => Cardinality(HeldUnder(KeyOf(requests[r]))) = 1
    /\ \A r1, r2 \in Requests :
          (/\ r1 # r2
           /\ Applied(requests[r1])
           /\ Applied(requests[r2])
           /\ requests[r1].ghl_order_data.d._id = requests[r2].ghl_order_data.d._id)
          => /\ Len(wms) = 1
             /\ wms[1] \in {requests[r1].wms_payload_model.payload,
                            requests[r2].wms_payload_model.payload}

\* C14 witness: two requests handled by different processes resolved to the
\* same order, mapped it on different days, both PUTs succeeded, and the WMS
\* holds one record
C14_Witness ==
    /\ \A r \in Requests : Done(r) /\ requests[r].success
    /\ requests[1].proc # requests[2].proc
    /\ requests[1].ghl_order_data.d._id = requests[2].ghl_order_data.d._id
    /\ requests[1].wms_payload_model.payload.deliveryDate
          # requests[2].wms_payload_model.payload.deliveryDate
    /\ Len(wms) = 1

\* The request waits in time.sleep between two search attempts
Sleeping(q) == q.pc \in {"sleep_try", "sleep_tail"}

\* C15 (the claim as stated): while a request waits in the resolver's
\* inter-attempt delay, every other request that is not finished can take
\* its next step.
C15_DelayDoesNotBlock ==
    \A r1, r2 \in Requests :
        (/\ r1 # r2
         /\ Sleeping(requests[r1])
         /\ ~Done(r2))
        => ENABLED RequestStep(r2)

\* The stages ran in the order resolver, mapper, submission, each at most once
StagesInOrder(q) ==
    \E n \in 0..3 : q.stages = SubSeq(<<"resolver", "mapper", "submission">>, 1, n)

\* C16: for every request the stages run in the order resolver, mapper,
\* submission, each at most once; the mapper runs only after the resolver
\* returned an order, the submission only with a payload the mapper returned,
\* and no PUT is issued outside the submission stage.
C16_PipelineOrder ==
    \A r \in Requests :
        LET q == requests[r]
        IN  /\ StagesInOrder(q)
            /\ HasStage(q, "mapper") => q.ghl_order_data # NoneV
            /\ HasStage(q, "submission") => q.wms_payload_model.kind = "payload"
            /\ q.puts # <<>> => HasStage(q, "submission")
            /\ ~HasStage(q, "mapper") => q.wms_payload_model = NotMapped

\* C16 witness: one request went through the three stages, the other ended
\* after a failed resolver
C16_Witness ==
    \E r1, r2 \in Requests :
        /\ requests[r1].stages = <<"resolver", "mapper", "submission">>
        /\ requests[r1].puts # <<>>
        /\ Done(r2)
        /\ requests[r2].stages = <<"resolver">>

\* create_ongoing_order issued a PUT that the WMS answered with a 2xx
SubmissionSucceeded(q) == q.puts # <<>> /\ q.puts[Len(q.puts)].resp.kind = "ok"

\* How a finished request ended
Outcome(q) ==
    IF ~HasStage(q, "mapper") THEN "upstream-fetch failure"
    ELSE IF q.wms_payload_model.kind # "payload" THEN "mapping failure"
    ELSE IF ~SubmissionSucceeded(q) THEN "downstream-submission failure"
    ELSE "success"

\* The category of a response: its HTTP status
Category(response) == response.status

\* C17 (the claim as stated): two requests that ended differently (success,
\* upstream-fetch failure, mapping failure, downstream-submission failure)
\* got responses of different categories.
C17_DistinctCategories ==
    \A r1, r2 \in Requests :
        (Done(r1) /\ Done(r2) /\ Outcome(requests[r1]) # Outcome(requests[r2]))
        => Category(requests[r1].response) # Category(requests[r2].response)

IsSuccessResponse(response) == response.status = 200

\* C18: a request gets the success response if and only if the resolver
\* returned an order, the mapper a payload and create_ongoing_order True; the
\* wmsOrderNumber of the response is the orderNumber of the payload that was
\* PUT. A request that is not finished has no response.
C18_SuccessAck ==
    \A r \in Requests :
        LET q == requests[r]
        IN  /\ ~Done(r) => q.response = NoResponse
            /\ Done(r) =>
                  /\ IsSuccessResponse(q.response) <=> Outcome(q) = "success"
                  /\ IsSuccessResponse(q.response) =>
                        /\ Len(q.puts) = 1
                        /\ q.response.wmsOrderNumber = q.puts[1].payload.orderNumber
                        /\ q.response.wmsOrderNumber = KeyOf(q)

\* C18 witness: one request acknowledged with PSF-O2, the other refused by the
\* WMS
C18_Witness ==
    \E r1, r2 \in Requests :
        /\ Done(r1)
        /\ IsSuccessResponse(requests[r1].response)
        /\ requests[r1].response.wmsOrderNumber = Str(<<"P", "S", "F", "-", "O", "2">>)
        /\ Done(r2)
        /\ requests[r2].puts # <<>>
        /\ requests[r2].puts[1].resp.kind = "http_error"
        /\ ~IsSuccessResponse(requests[r2].response)

CredentialsMissing == ~Truthy(ONGOING_USERNAME) \/ ~Truthy(ONGOING_PASSWORD)

\* C20: a call of create_ongoing_order issues at most one PUT and it is the
\* last thing the call does; with the WMS username or password missing it
\* issues none and returns failure; a PUT answered with an error status or
\* ended by a transport error makes it return failure.
C20_SinglePut ==
    \A r \in Requests :
        LET q == requests[r]
        IN  /\ Len(q.puts) <= 1
            /\ q.puts # <<>> => Done(r)
            /\ CredentialsMissing =>
                  /\ q.puts = <<>>
                  /\ q.pc # "put"
                  /\ HasStage(q, "submission") => (Done(r) /\ ~q.success)
            /\ (q.puts # <<>> /\ q.puts[1].resp.kind \in {"http_error", "transport_error"})
                  => ~q.success
            /\ q.success => SubmissionSucceeded(q)

\* C20 witness: with the password missing a request reached the submission
\* and ended without a PUT
C20_Witness ==
    /\ CredentialsMissing
    /\ \E r \in Requests :
          /\ Done(r)
          /\ HasStage(requests[r], "submission")
          /\ requests[r].puts = <<>>
          /\ ~requests[r].success

\* C20 second witness: a PUT ended by a transport error
C20_WitnessTransport ==
    \E r \in Requests :
        /\ requests[r].puts # <<>>
        /\ requests[r].puts[1].resp.kind = "transport_error"
        /\ ~requests[r].success

-----------------------------------------------------------------------------
(* Defaults and failures of map_ghl_order_to_wms_payload *)

\* The customer snapshot of the order mapped
Snapshot == ghl_order_data.d.contactSnapshot

\* The snapshot with "N/A" in place of an address line, postal code or city
\* that is missing or null
DefaultedSnapshot(cs) ==
    Dict([k \in DOMAIN cs.d |->
            IF k \in {"address1", "postalCode", "city"} /\ cs.d[k] \in Missing
            THEN Str(<<"N", "/", "A">>)
            ELSE cs.d[k]])

DefaultedOrder(order) ==
    Dict([order.d EXCEPT !.contactSnapshot = DefaultedSnapshot(order.d.contactSnapshot)])

\* C23 (the claim as stated): for an order with an identifier and at least
\* one valid line, an address line, postal code or city of the customer
\* snapshot that is missing or null does not change the outcome: the mapper
\* does what it does for the order that holds "N/A" there, so the consignee
\* field is "N/A"; and a missing or null email or phone leaves the optional
\* consignee field empty.
C23_ConsigneeDefaults ==
    (/\ mapped # NotMapped
     /\ Truthy(Get(ghl_order_data, "_id"))
     /\ LinesBuilt # <<>>
     /\ Snapshot.t = "dict")
    => /\ \E today \in 1..MaxDay :
             mapped = MapGhlOrderToWmsPayload(DefaultedOrder(ghl_order_data),
                                              ONGOING_GOODS_OWNER_ID_STR, today)
       /\ mapped.kind = "payload" =>
             /\ Snapshot.d.email \in Missing => mapped.payload.consignee.email = NoneV
             /\ Snapshot.d.phone \in Missing => mapped.payload.consignee.mobilePhone = NoneV

\* The order with the default currency
WithDefaultCurrency(order) == Dict([order.d EXCEPT !.currency = Str(<<"S", "E", "K">>)])

\* C24 (the claim as stated): for an order with an identifier and at least
\* one valid line, a currency that is missing or null is the default: the
\* mapper does what it does for the order whose currency is "SEK", and a
\* returned payload has currency "SEK"; a currency that is there comes back
\* in upper case; the currency of every returned payload has 3 characters.
C24_CurrencyDefault ==
    /\ (/\ mapped # NotMapped
        /\ Truthy(Get(ghl_order_data, "_id"))
        /\ LinesBuilt # <<>>
        /\ ghl_order_data.d.currency \in Missing)
       => /\ \E today \in 1..MaxDay :
                mapped = MapGhlOrderToWmsPayload(WithDefaultCurrency(ghl_order_data),
                                                 ONGOING_GOODS_OWNER_ID_STR, today)
          /\ mapped.kind = "payload" => mapped.payload.currency = Str(<<"S", "E", "K">>)
    /\ mapped.kind = "payload" =>
          /\ mapped.payload.currency.t = "str"
          /\ Len(mapped.payload.currency.s) = 3
          /\ ghl_order_data.d.currency.t = "str"
                => mapped.payload.currency = Str(Upper(ghl_order_data.d.currency.s))

\* The configured goods-owner id is set and is the text of an integer
GoodsOwnerParses ==
    /\ ONGOING_GOODS_OWNER_ID_STR.t = "str"
    /\ IntOfChars(ONGOING_GOODS_OWNER_ID_STR.s).ok

\* C25 (the claim as stated): with the configured goods-owner id unset or not
\* the text of an integer, the mapper returns failure (None) for every order,
\* valid or not; when it parses, the goodsOwnerId of every returned payload
\* is that integer.
C25_ConfigFatal ==
    mapped # NotMapped =>
        /\ ~GoodsOwnerParses => mapped.kind = "none"
        /\ mapped.kind = "payload" =>
              /\ GoodsOwnerParses
              /\ mapped.payload.goodsOwnerId = IntOfChars(ONGOING_GOODS_OWNER_ID_STR.s).v

\* The mapper gets as far as assembling payload_data
Assembles ==
    /\ Truthy(Get(ghl_order_data, "_id"))
    /\ LinesBuilt # <<>>
    /\ GoodsOwnerParses
    /\ GetOr(ghl_order_data, "currency", Str(<<"S", "E", "K">>)).t = "str"
    /\ GetOr(ghl_order_data, "contactSnapshot", EmptyContact).t = "dict"

\* The payload_data it assembles (the delivery date aside)
Assembled ==
    PayloadData(ghl_order_data, GetOr(ghl_order_data, "contactSnapshot", EmptyContact),
                LinesBuilt, IntOfChars(ONGOING_GOODS_OWNER_ID_STR.s).v, 1)

NotAString(x) == x.t # "str"

NotAnOptionalString(x) == x.t \notin {"none", "str"}

\* None, a number, or the text of a number
NotAnOptionalNumber(x) ==
    /\ x.t \notin {"none", "int", "float"}
    /\ ~(x.t = "str" /\ FloatOfChars(x.s).ok)

\* The payload violates the schema of the WMS: a required string field of the
\* consignee or of a line is not a string, an optional one is neither a
\* string nor null, the currency is not 3 characters, the email is not an
\* address, the total is not a number, or there is no line
ViolatesSchema(p) ==
    \/ \E f \in {"name", "address", "postCode", "city", "countryCode"} : NotAString(p.consignee[f])
    \/ \E f \in {"address2", "mobilePhone"} : NotAnOptionalString(p.consignee[f])
    \/ p.consignee.email.t # "none" /\ (NotAString(p.consignee.email) \/ ~IsEmail(p.consignee.email.s))
    \/ p.currency.t # "none" /\ (NotAString(p.currency) \/ Len(p.currency.s) # 3)
    \/ NotAString(p.orderNumber)
    \/ NotAnOptionalString(p.orderRemark)
    \/ NotAnOptionalNumber(p.customerPrice)
    \/ p.orderLines = <<>>
    \/ \E i \in DOMAIN p.orderLines :
          \/ NotAString(p.orderLines[i].articleNumber)
          \/ NotAString(p.orderLines[i].articleName)
          \/ p.orderLines[i].numberOfItems < 1

\* C26: whenever the payload the mapper assembled violates the schema of the
\* WMS, the mapper returns failure (None) and no payload; no returned payload
\* violates the schema.
C26_ValidationFailure ==
    /\ (mapped # NotMapped /\ Assembles) =>
          (ViolatesSchema(Assembled) => mapped.kind = "none")
    /\ mapped.kind = "payload" => ~ViolatesSchema(mapped.payload)

\* C26 witness: an order whose only fault is an email that is not an
\* address was assembled and gave None
C26_Witness ==
    /\ mapped = ReturnedNone
    /\ Assembles
    /\ Assembled.consignee.email = Str(<<"b", "a", "d">>)
    /\ ViolatesSchema(Assembled)

\* C28: in every returned payload orderLines is the subsequence of the
\* source items that carry an article code, in source order, one line per
\* such item (two items with the same code give two lines), and the
\* articleNumber of each line is the article code of its item.
C28_LinesPreserved ==
    mapped.kind = "payload" =>
        LET lines == mapped.payload.orderLines
            coded == CodedItems
        IN  /\ Len(lines) = Len(coded)
            /\ Len(lines) = Cardinality({i \in DOMAIN ItemsOf(ghl_order_data) :
                                            HasArticleCode(ItemsOf(ghl_order_data)[i])})
            /\ \A i \in DOMAIN lines : lines[i].articleNumber = coded[i].d.price.d.sku

\* C28 witness: a payload of two lines for two items, SKU-1 before SKU-2
C28_Witness ==
    /\ mapped.kind = "payload"
    /\ Len(ItemsOf(ghl_order_data)) = 2
    /\ Len(mapped.payload.orderLines) = 2
    /\ mapped.payload.orderLines[1].articleNumber = Sku(1)
    /\ mapped.payload.orderLines[2].articleNumber = Sku(2)

-----------------------------------------------------------------------------
(* Properties of get_country_code, as run() of create_winners_orders.py     *)
(* calls it                                                                 *)

\* The documented lookup table
DocumentedCountryTable ==
    {<<<<"s", "w", "e", "d", "e", "n">>, <<"S", "E">>>>,
     <<<<"u", "n", "i", "t", "e", "d", " ", "s", "t", "a", "t", "e", "s">>, <<"U", "S">>>>,
     <<<<"u", "n", "i", "t", "e", "d", " ", "k", "i", "n", "g", "d", "o", "m">>, <<"G", "B">>>>,
     <<<<"n", "o", "r", "w", "a", "y">>, <<"N", "O">>>>,
     <<<<"d", "e", "n", "m", "a", "r", "k">>, <<"D", "K">>>>,
     <<<<"f", "i", "n", "l", "a", "n", "d">>, <<"F", "I">>>>,
     <<<<"g", "e", "r", "m", "a", "n", "y">>, <<"D", "E">>>>}

\* The country the normalizer was called with for the winner at hand
CountryGiven == Get(winners.contact, "country")

\* The normalizer returned for the winner at hand
Normalized == winners.pc = "send"

\* C21 (the claim as stated): for every country name of the documented
\* table, in any letter case, the normalizer returns the documented code.
C21_LookupTable ==
    Normalized =>
        \A e \in DocumentedCountryTable :
            (CountryGiven.t = "str" /\ Lower(CountryGiven.s) = e[1])
            => winners.iso_country_code = Str(e[2])

TwoLetters(cs) ==
    /\ Len(cs) = 2
    /\ \A i \in DOMAIN cs : IsIn(cs[i], LowercaseLetters) \/ IsIn(cs[i], UppercaseLetters)

InDocumentedTable(cs) == \E e \in DocumentedCountryTable : e[1] = Lower(cs)

\* The payload of the winner at hand could not be built
PayloadFailed ==
    /\ winners.pc \in {"fetch", "finished"}
    /\ winners.skipped # <<>>
    /\ winners.skipped[Len(winners.skipped)].why = "no payload"

\* C22: for a country that is a string or null the normalizer returns a
\* string and does not raise: "N/A" for null and for the empty string, the
\* input in upper case for exactly two letters, whether the table has it or
\* not, and "N/A" for every other input that is not in the table.
C22_NormalizerTotal ==
    /\ PayloadFailed => CountryGiven.t \notin {"none", "str"}
    /\ Normalized =>
          /\ CountryGiven.t \in {"none", "str"}
          /\ winners.iso_country_code.t = "str"
          /\ CountryGiven.t = "none" => winners.iso_country_code = Str(<<"N", "/", "A">>)
          /\ CountryGiven = Str(<<>>) => winners.iso_country_code = Str(<<"N", "/", "A">>)
          /\ (CountryGiven.t = "str" /\ TwoLetters(CountryGiven.s))
                => winners.iso_country_code = Str(Upper(CountryGiven.s))
          /\ (/\ CountryGiven.t = "str"
              /\ ~TwoLetters(CountryGiven.s)
              /\ ~InDocumentedTable(CountryGiven.s))
                => winners.iso_country_code = Str(<<"N", "/", "A">>)

\* C22 witness: a two-letter code in mixed case that no table holds came back
\* in upper case
C22_Witness ==
    /\ Normalized
    /\ CountryGiven = Str(<<"N", "o">>)
    /\ winners.iso_country_code = Str(<<"N", "O">>)

-----------------------------------------------------------------------------
(* Properties of OngoingWMSIntegration._make_request *)

\* The call ran into an error: an unsupported method, an exception of the
\* transport or of the decoding, or a status other than 200/201
ErrorOccurred(m) ==
    \/ ~m.sent
    \/ m.resp.kind = "exception"
    \/ m.resp.status \notin {200, 201}
    \/ (~m.resp.content.empty /\ ~m.resp.content.decodes)

\* C29 (the claim as stated): _make_request returns for every method and
\* response; when it returns None an error occurred (an exception, an
\* unsupported method, or a status other than 200/201), and a request that
\* succeeded with data returns that data.
C29_NoneMeansError ==
    made # NoneV =>
        /\ made.returned = NoneV => ErrorOccurred(made)
        /\ (~ErrorOccurred(made) /\ ~made.resp.content.empty)
              => made.returned = made.resp.content.json

-----------------------------------------------------------------------------
(* Properties of run() of create_winners_orders.py *)

\* The payloads run() built so far, with the contact id of each
Built == IF winners.pc = "idle" THEN <<>> ELSE winners.built

\* C30 (the claim as stated): any two distinct contact ids of the winners
\* list yield distinct WMS order numbers.
C30_UniqueOrderNumbers ==
    \A i, j \in DOMAIN Built :
        Built[i].contact_id # Built[j].contact_id
        => Built[i].orderNumber # Built[j].orderNumber

====
